---- MODULE Spec2Model ----
(***************************************************************************)
(* Invoice document pipeline of VPa05_PDF_maker: PDFGenerator              *)
(* (pdf_generator.py) and SchetGenerator (schet_generator.py).             *)
(*                                                                         *)
(* Eight specifications share this module:                                 *)
(*   SpecData    - invoice key resolver and invoice filter applied to      *)
(*                 bounded datasets (DataFrame and list of records);       *)
(*   SpecSchet   - the resolver and filter of SchetGenerator;              *)
(*   SpecGen     - generate_pdf and its two backends;                      *)
(*   SpecCounter - get_next_invoice_number run by concurrent processes     *)
(*                 against the durable counter store;                      *)
(*   SpecLoad    - read_csv_file and read_json_file;                       *)
(*   SpecRender  - render_template of both generators;                     *)
(*   SpecRun     - the interactive pipeline run() of both generators;      *)
(*   SpecInvoice - generate_new_invoice called again and again.            *)
(* Text is modelled as sequences of one-character strings.                 *)
(***************************************************************************)
EXTENDS Integers, Sequences, FiniteSets, TLC

VARIABLES
    \* --- SpecData: resolver and filter -------------------------------
    data,          \* the dataset handed to the resolver / the filter
    invoice_id,    \* the invoice id handed to the filter
    invoices,      \* [done, val]: result of get_available_invoices(data)
    filtered,      \* [done, val]: result of filter_data_by_invoice(data, invoice_id)
    refiltered,    \* [done, val]: result of get_available_invoices(filtered.val)
    \* --- SpecGen: generate_pdf ---------------------------------------
    WEASYPRINT_AVAILABLE,   \* module flag set at import time
    REPORTLAB_AVAILABLE,    \* module flag set at import time
    html_content,  \* the rendered HTML handed to generate_pdf
    gen_data,      \* the filtered dataset handed to generate_pdf
    gen_id,        \* the invoice id handed to generate_pdf
    out_file,      \* content of the file system at the destination path
    gen,           \* record of the last generate_pdf call
    \* --- SpecCounter: get_next_invoice_number ------------------------
    counter_file,  \* content of invoice_counter.json
    store0,        \* content of the store when the run began
    pc,            \* per process: position inside get_next_invoice_number
    counter,       \* per process: the local variable counter
    calls,         \* per process: number of calls that have returned
    result,        \* per process: what the last call returned
    clock,         \* wall clock, in minutes
    ioFailed,      \* whether an I/O operation on the store has failed
    \* --- SpecLoad, SpecRender, SpecRun: loaders, render_template, run --
    src_file,      \* the data file handed to a loader
    loaded,        \* record of the last loader call
    template,      \* the template file handed to render_template
    rendered,      \* record of the last render_template call
    run,           \* position and history of one run() of the pipeline
    \* --- SpecInvoice: generate_new_invoice ---------------------------
    issued         \* the generate_new_invoice calls that have ended, in order

dataVars == <<data, invoice_id, invoices, filtered, refiltered>>
genVars == <<WEASYPRINT_AVAILABLE, REPORTLAB_AVAILABLE, html_content, gen_data,
             gen_id, out_file, gen>>
cntVars == <<counter_file, store0, pc, counter, calls, result, clock, ioFailed>>
pipeVars == <<src_file, loaded, template, rendered, run, issued>>
vars == <<dataVars, genVars, cntVars, pipeVars>>

(***************************************************************************)
(* Bounds of the model.                                                    *)
(***************************************************************************)
MaxRows == 2
MaxCalls == 2
MaxClock == 1

(***************************************************************************)
(* Text: characters, str.lower(), the `in` substring test, str(int),       *)
(* and the code-point order used by sorted().                              *)
(***************************************************************************)
Lower(c) ==
    CASE c = "A" -> "a"
      [] c = "D" -> "d"
      [] c = "I" -> "i"
      [] OTHER -> c

LowerStr(s) == [i \in 1..Len(s) |-> Lower(s[i])]

Contains(s, sub) ==
    \E i \in 0..(Len(s) - Len(sub)) : SubSeq(s, i + 1, i + Len(sub)) = sub

DigitChar(d) == <<"0", "1", "2", "3", "4", "5", "6", "7", "8", "9">>[d + 1]

RECURSIVE IntToStr(_)
IntToStr(n) ==
    IF n < 10 THEN <<DigitChar(n)>>
    ELSE IntToStr(n \div 10) \o <<DigitChar(n % 10)>>

CodePoint(c) ==
    CASE c = " " -> 32
      [] c = "-" -> 45
      [] c = "0" -> 48
      [] c = "1" -> 49
      [] c = "2" -> 50
      [] c = "3" -> 51
      [] c = "4" -> 52
      [] c = "5" -> 53
      [] c = "6" -> 54
      [] c = "7" -> 55
      [] c = "8" -> 56
      [] c = "9" -> 57
      [] c = "A" -> 65
      [] c = "a" -> 97
      [] OTHER -> 120

RECURSIVE StrLeq(_, _)
StrLeq(a, b) ==
    IF a = <<>> THEN TRUE
    ELSE IF b = <<>> THEN FALSE
    ELSE IF CodePoint(Head(a)) < CodePoint(Head(b)) THEN TRUE
    ELSE IF CodePoint(Head(a)) > CodePoint(Head(b)) THEN FALSE
    ELSE StrLeq(Tail(a), Tail(b))

RECURSIVE SortedList(_)
SortedList(S) ==
    IF S = {} THEN <<>>
    ELSE LET m == CHOOSE x \in S : \A y \in S : StrLeq(x, y)
         IN <<m>> \o SortedList(S \ {m})

(***************************************************************************)
(* Values, records and datasets.                                           *)
(***************************************************************************)
IntVal(n) == [t |-> "int", v |-> n, s |-> <<>>]
StrVal(chars) == [t |-> "str", v |-> 0, s |-> chars]

\* str(value), and the element-wise .astype(str) of a column
Str(val) ==
    IF val.t = "int" THEN IntToStr(val.v)
    ELSE IF val.t = "nan" THEN <<"n", "a", "n">>
    ELSE val.s

DataFrame(cols, rs) == [kind |-> "df", columns |-> cols, rows |-> rs, items |-> <<>>]
ListData(its) == [kind |-> "list", columns |-> <<>>, rows |-> <<>>, items |-> its]

DictItem(ps) == [isdict |-> TRUE, pairs |-> ps, val |-> IntVal(0)]
ScalarItem(x) == [isdict |-> FALSE, pairs |-> <<>>, val |-> x]

(***************************************************************************)
(* The invoice key heuristic shared by the resolver and the filter.        *)
(***************************************************************************)
f_invoice == <<"i", "n", "v", "o", "i", "c", "e">>
f_id == <<"i", "d">>

IsInvoiceKey(name) ==
    Contains(LowerStr(name), f_invoice) \/ Contains(LowerStr(name), f_id)

\* [col for col in data.columns if ...]
invoice_columns(d) == SelectSeq(d.columns, IsInvoiceKey)

ColumnIndex(d, col) == CHOOSE i \in 1..Len(d.columns) : d.columns[i] = col

\* for key in item.keys(): if ...: <use item[key]>; break
HasInvoiceKey(item) == \E i \in 1..Len(item.pairs) : IsInvoiceKey(item.pairs[i].k)

FirstInvoiceKeyIndex(item) ==
    CHOOSE i \in 1..Len(item.pairs) :
        /\ IsInvoiceKey(item.pairs[i].k)
        /\ \A j \in 1..(i - 1) : ~IsInvoiceKey(item.pairs[j].k)

FirstInvoiceKeyValue(item) == item.pairs[FirstInvoiceKeyIndex(item)].v

get_available_invoices(d) ==
    LET found ==
            IF d.kind = "df" THEN
                IF invoice_columns(d) # <<>> THEN
                    LET c == ColumnIndex(d, invoice_columns(d)[1])
                    IN {Str(d.rows[r][c]) : r \in 1..Len(d.rows)}
                ELSE {}
            ELSE IF d.kind = "list" THEN
                {Str(FirstInvoiceKeyValue(d.items[i])) :
                    i \in {j \in 1..Len(d.items) :
                              d.items[j].isdict /\ HasInvoiceKey(d.items[j])}}
            ELSE {}
    IN SortedList(found)

\* filter_data_by_invoice without the break: any invoice-like field may match
filter_any_key(d, id) ==
    IF d.kind = "df" THEN
        IF invoice_columns(d) # <<>> THEN
            LET c == ColumnIndex(d, invoice_columns(d)[1])
                Keep(r) == Str(r[c]) = id
            IN DataFrame(d.columns, SelectSeq(d.rows, Keep))
        ELSE d
    ELSE IF d.kind = "list" THEN
        LET Keep(item) ==
                /\ item.isdict
                /\ \E i \in 1..Len(item.pairs) :
                      IsInvoiceKey(item.pairs[i].k) /\ Str(item.pairs[i].v) = id
        IN ListData(SelectSeq(d.items, Keep))
    ELSE d

filter_data_by_invoice(d, id) ==
    IF d.kind = "df" THEN
        IF invoice_columns(d) # <<>> THEN
            LET c == ColumnIndex(d, invoice_columns(d)[1])
                Keep(r) == Str(r[c]) = id
            IN DataFrame(d.columns, SelectSeq(d.rows, Keep))
        ELSE d
    ELSE IF d.kind = "list" THEN
        LET Keep(item) ==
                /\ item.isdict
                /\ HasInvoiceKey(item)
                /\ Str(FirstInvoiceKeyValue(item)) = id
        IN ListData(SelectSeq(d.items, Keep))
    ELSE d

(***************************************************************************)
(* The datasets and ids the resolver and the filter are applied to.        *)
(***************************************************************************)
n_id == <<"i", "d">>
n_ID == <<"I", "D">>
n_Invoice == <<"I", "n", "v", "o", "i", "c", "e">>
n_total == <<"t", "o", "t", "a", "l">>

\* field layouts: column order of a DataFrame, key order of a JSON object
Layouts ==
    {<<n_total>>, <<n_id>>, <<n_id, n_Invoice>>, <<n_Invoice, n_id>>, <<n_total, n_ID>>}

Values == {IntVal(7), StrVal(<<"7">>), StrVal(<<"A">>)}

FieldValues(name) == IF name = n_total THEN {IntVal(7)} ELSE Values

InvoiceIds == {<<"7">>, <<"a">>, <<" ", "7">>}

RowsOf(L) == {r \in [1..Len(L) -> Values] : \A i \in 1..Len(L) : r[i] \in FieldValues(L[i])}

ItemsOf(L) == {DictItem([i \in 1..Len(L) |-> [k |-> L[i], v |-> r[i]]]) : r \in RowsOf(L)}

Items == UNION {ItemsOf(L) : L \in Layouts} \cup {DictItem(<<>>), ScalarItem(IntVal(7))}

SeqsUpTo(S, n) == UNION {[1..k -> S] : k \in 0..n}

DataFrames == UNION {{DataFrame(L, rs) : rs \in SeqsUpTo(RowsOf(L), MaxRows)} : L \in Layouts}

Lists == {ListData(its) : its \in SeqsUpTo(Items, MaxRows)}

Datasets == DataFrames \cup Lists

(***************************************************************************)
(* SpecData: the resolver and the filter applied to one dataset.           *)
(***************************************************************************)
Pending(x) == [done |-> FALSE, val |-> x]
Done(x) == [done |-> TRUE, val |-> x]

\* invoices = generator.get_available_invoices(data)
GetAvailableInvoices ==
    /\ ~invoices.done
    /\ invoices' = Done(get_available_invoices(data))
    /\ UNCHANGED <<data, invoice_id, filtered, refiltered>>
    /\ UNCHANGED <<genVars, cntVars, pipeVars>>

\* a filter that drops the other records from the list it was handed
filter_call_in_place(d, id) ==
    [ret |-> filter_data_by_invoice(d, id), data |-> filter_data_by_invoice(d, id)]

\* one call of filter_data_by_invoice: what it returns, and the object
\* passed as data as the call leaves it (the code only reads data and
\* builds the result in a new DataFrame / a new list)
filter_call(d, id) ==
    [ret |-> filter_data_by_invoice(d, id), data |-> d]

\* filtered_data = generator.filter_data_by_invoice(data, selected_invoice)
FilterDataByInvoice ==
    /\ ~filtered.done
    /\ filtered' = Done(filter_call(data, invoice_id).ret)
    /\ data' = filter_call(data, invoice_id).data
    /\ UNCHANGED <<invoice_id, invoices, refiltered>>
    /\ UNCHANGED <<genVars, cntVars, pipeVars>>

\* get_available_invoices applied to the filter's result
ResolveFiltered ==
    /\ filtered.done
    /\ ~refiltered.done
    /\ refiltered' = Done(get_available_invoices(filtered.val))
    /\ UNCHANGED <<data, invoice_id, invoices, filtered>>
    /\ UNCHANGED <<genVars, cntVars, pipeVars>>

NextData ==
    \/ GetAvailableInvoices
    \/ FilterDataByInvoice
    \/ ResolveFiltered

(***************************************************************************)
(* The durable counter store and get_next_invoice_number.                  *)
(***************************************************************************)
Procs == {1, 2}

\* JSON values a "counter" member can hold; JFloat(n) stands for n + 0.5
JInt(n) == [t |-> "int", v |-> n]
JFloat(n) == [t |-> "float", v |-> n]
JStr == [t |-> "str", v |-> 0]
JNull == [t |-> "null", v |-> 0]
\* JSON true, which json.load yields as True, an int of value 1 to Python
JTrue == [t |-> "bool", v |-> 1]

\* content of invoice_counter.json
Absent == [k |-> "absent", has |-> FALSE, val |-> JInt(0)]
Empty == [k |-> "empty", has |-> FALSE, val |-> JInt(0)]
Partial == [k |-> "partial", has |-> FALSE, val |-> JInt(0)]
Garbage == [k |-> "garbage", has |-> FALSE, val |-> JInt(0)]
NonObject == [k |-> "nonobject", has |-> FALSE, val |-> JInt(0)]
ObjNoCounter == [k |-> "object", has |-> FALSE, val |-> JInt(0)]
Doc(val) == [k |-> "object", has |-> TRUE, val |-> val]

\* the two-letter Cyrillic prefix and the hyphen, transliterated
Prefix == <<"S", "C", "-">>

\* f"{counter:03d}": zero-padded to a width of at least three
Format03d(n) ==
    LET ds == IntToStr(n)
    IN IF Len(ds) >= 3 THEN ds
       ELSE [i \in 1..(3 - Len(ds)) |-> "0"] \o ds

\* now.strftime('%Y%m%d%H%M') of minute m of the hour the run began in
Timestamp(m) ==
    <<"2", "0", "2", "6", "1", "1", "0", "4", "1", "2">>
        \o (IF m < 10 THEN <<"0">> ELSE <<>>) \o IntToStr(m)

\* except Exception as e: every exception class raised in the try block
Exceptions == {"OSError", "JSONDecodeError", "AttributeError", "TypeError", "ValueError"}

\* except (IOError, OSError) in place of except Exception
CaughtOSErrorOnly(exc) == exc = "OSError"

Caught(exc) == exc \in Exceptions

\* data = json.load(f): the exception it ends in, or "none"
LoadError(file) ==
    CASE file.k \in {"empty", "partial", "garbage"} -> "JSONDecodeError"
      [] file.k = "absent" -> "OSError"
      [] OTHER -> "none"

\* counter = data.get('counter', 0): the exception it ends in, or "none"
GetError(file) == IF file.k = "nonobject" THEN "AttributeError" ELSE "none"

\* data.get('counter', 0)
GetCounter(file) == IF file.has THEN file.val ELSE JInt(0)

\* counter += 1: the exception it ends in, or "none"
IncrError(c) == IF c.t \in {"int", "float", "bool"} THEN "none" ELSE "TypeError"

\* counter += 2
IncrTwice(c) == [t |-> IF c.t = "bool" THEN "int" ELSE c.t, v |-> c.v + 2]

\* counter += 1
Incr(c) == [t |-> IF c.t = "bool" THEN "int" ELSE c.t, v |-> c.v + 1]

\* f"{counter:03d}": the exception it ends in, or "none"
FormatError(c) == IF c.t = "int" THEN "none" ELSE "ValueError"

\* length of json.dumps({'counter': c}, indent=2) beyond its fixed part
DocLen(file) ==
    CASE file.k \in {"absent", "empty", "partial"} -> 0
      [] file.k = "object" /\ file.has /\ file.val.t = "int" -> Len(IntToStr(file.val.v))
      [] file.k = "object" /\ file.has /\ file.val.t = "float" ->
            Len(IntToStr(file.val.v)) + 2
      [] file.k = "object" /\ file.has /\ file.val.t = "bool" -> 4
      [] OTHER -> 1

\* the write-back placed before the increment: the value read is stored again
DumpedPrior(existing, c) == Doc([t |-> c.t, v |-> c.v - 1])

\* json.dump({'counter': c}, f) and close: the document is written at offset 0
\* of whatever the file holds by then; a longer document written meanwhile
\* through another handle leaves its tail behind
Dumped(existing, c) ==
    IF DocLen(existing) > DocLen(Doc(c)) THEN Garbage ELSE Doc(c)

NoResult == [kind |-> "none", text |-> <<>>, exc |-> "none", read |-> JInt(0)]

\* return f"<prefix>{counter:03d}"
CounterResult(c, prior) ==
    [kind |-> "counter", text |-> Prefix \o Format03d(c.v), exc |-> "none", read |-> prior]

\* the except branch: return f"<prefix>{now.strftime('%Y%m%d%H%M')}"
FallbackResult(exc, now) ==
    IF Caught(exc)
    THEN [kind |-> "timestamp", text |-> Prefix \o Timestamp(now), exc |-> exc,
          read |-> JInt(0)]
    ELSE [kind |-> "raised", text |-> <<>>, exc |-> exc, read |-> JInt(0)]

(***************************************************************************)
(* SpecCounter: processes calling get_next_invoice_number.  Every access   *)
(* to the store is one step; the computation between two accesses belongs  *)
(* to the step of the access before it.                                    *)
(***************************************************************************)
InitialStores ==
    {Absent, ObjNoCounter, Doc(JInt(998)), Doc(JFloat(1)), Doc(JTrue), Doc(JStr),
     Doc(JNull), Garbage, NonObject, Empty}

\* the call leaves the try block with exception exc
Fail(p, exc) ==
    /\ result' = [result EXCEPT ![p] = FallbackResult(exc, clock)]
    /\ calls' = [calls EXCEPT ![p] = @ + 1]
    /\ pc' = [pc EXCEPT ![p] = "idle"]
    /\ counter' = [counter EXCEPT ![p] = JInt(0)]

\* the call returns the counter-derived number
Return(p) ==
    /\ result' = [result EXCEPT ![p] =
                      CounterResult(counter[p], [t |-> "int", v |-> counter[p].v - 1])]
    /\ calls' = [calls EXCEPT ![p] = @ + 1]
    /\ pc' = [pc EXCEPT ![p] = "idle"]
    /\ counter' = [counter EXCEPT ![p] = JInt(0)]

Goto(p, label) == pc' = [pc EXCEPT ![p] = label]

\* generator.get_next_invoice_number()
Call(p) ==
    /\ pc[p] = "idle"
    /\ calls[p] < MaxCalls
    /\ Goto(p, "exists")
    /\ UNCHANGED <<counter_file, store0, counter, calls, result, clock, ioFailed>>
    /\ UNCHANGED <<dataVars, genVars, pipeVars>>

\* if self.counter_file.exists(): ... else: counter = 0; counter += 1
Exists(p) ==
    /\ pc[p] = "exists"
    /\ \/ /\ ioFailed' = TRUE
          /\ Fail(p, "OSError")
          /\ UNCHANGED <<counter_file, store0, clock>>
       \/ /\ counter_file.k # "absent"
          /\ Goto(p, "open_r")
          /\ UNCHANGED <<counter_file, store0, counter, calls, result, clock, ioFailed>>
       \/ /\ counter_file.k = "absent"
          /\ counter' = [counter EXCEPT ![p] = Incr(JInt(0))]
          /\ Goto(p, "open_w")
          /\ UNCHANGED <<counter_file, store0, calls, result, clock, ioFailed>>
    /\ UNCHANGED <<dataVars, genVars, pipeVars>>

\* with open(self.counter_file, 'r', encoding='utf-8') as f:
OpenRead(p) ==
    /\ pc[p] = "open_r"
    /\ \/ /\ ioFailed' = TRUE
          /\ Fail(p, "OSError")
          /\ UNCHANGED <<counter_file, store0, clock>>
       \/ /\ Goto(p, "load")
          /\ UNCHANGED <<counter_file, store0, counter, calls, result, clock, ioFailed>>
    /\ UNCHANGED <<dataVars, genVars, pipeVars>>

\* data = json.load(f); counter = data.get('counter', 0); counter += 1
Load(p) ==
    /\ pc[p] = "load"
    /\ \/ /\ ioFailed' = TRUE
          /\ Fail(p, "OSError")
          /\ UNCHANGED <<counter_file, store0, clock>>
       \/ LET c == GetCounter(counter_file)
              exc == IF LoadError(counter_file) # "none" THEN LoadError(counter_file)
                     ELSE IF GetError(counter_file) # "none" THEN GetError(counter_file)
                     ELSE IncrError(c)
          IN /\ IF exc # "none"
                THEN Fail(p, exc)
                ELSE /\ counter' = [counter EXCEPT ![p] = Incr(c)]
                     /\ Goto(p, "open_w")
                     /\ UNCHANGED <<calls, result>>
             /\ UNCHANGED <<counter_file, store0, clock, ioFailed>>
    /\ UNCHANGED <<dataVars, genVars, pipeVars>>

\* with open(self.counter_file, 'w', encoding='utf-8') as f:
OpenWrite(p) ==
    /\ pc[p] = "open_w"
    /\ \/ /\ ioFailed' = TRUE
          /\ Fail(p, "OSError")
          /\ UNCHANGED <<counter_file, store0, clock>>
       \/ /\ counter_file' = Empty
          /\ Goto(p, "dump")
          /\ UNCHANGED <<store0, counter, calls, result, clock, ioFailed>>
    /\ UNCHANGED <<dataVars, genVars, pipeVars>>

\* json.dump({'counter': counter}, f, ...); close; return f"...{counter:03d}"
Dump(p) ==
    /\ pc[p] = "dump"
    /\ \/ /\ ioFailed' = TRUE
          /\ counter_file' \in {counter_file, Partial}
          /\ Fail(p, "OSError")
          /\ UNCHANGED <<store0, clock>>
       \/ /\ counter_file' = Dumped(counter_file, counter[p])
          /\ IF FormatError(counter[p]) # "none"
             THEN Fail(p, FormatError(counter[p]))
             ELSE Return(p)
          /\ UNCHANGED <<store0, clock, ioFailed>>
    /\ UNCHANGED <<dataVars, genVars, pipeVars>>

\* a minute passes
Tick ==
    /\ clock < MaxClock
    /\ clock' = clock + 1
    /\ UNCHANGED <<counter_file, store0, pc, counter, calls, result, ioFailed>>
    /\ UNCHANGED <<dataVars, genVars, pipeVars>>

NextCounter ==
    \/ \E p \in Procs : Call(p)
    \/ \E p \in Procs : Exists(p)
    \/ \E p \in Procs : OpenRead(p)
    \/ \E p \in Procs : Load(p)
    \/ \E p \in Procs : OpenWrite(p)
    \/ \E p \in Procs : Dump(p)
    \/ Tick

(***************************************************************************)
(* SchetGenerator: the resolver and the filter over a DataFrame.           *)
(* Column names are transliterated: nomer_scheta, schet.  A cell is a      *)
(* number, a string or NaN (a missing cell).                               *)
(***************************************************************************)
NaNVal == [t |-> "nan", v |-> 0, s |-> <<>>]

n_nomer_scheta == <<"n", "o", "m", "e", "r", "_", "s", "c", "h", "e", "t", "a">>
n_invoice_id == <<"i", "n", "v", "o", "i", "c", "e", "_", "i", "d">>
f_schet == <<"s", "c", "h", "e", "t">>

\* 'счет' in col.lower() or 'invoice' in col.lower()
IsSchetColumn(name) ==
    Contains(LowerStr(name), f_schet) \/ Contains(LowerStr(name), f_invoice)

NoColumn == <<>>

\* the if / elif / else chain that picks the invoice column
schet_invoice_column(d) ==
    LET HasColumn(col) == \E i \in 1..Len(d.columns) : d.columns[i] = col
    IN IF HasColumn(n_nomer_scheta) THEN n_nomer_scheta
       ELSE IF HasColumn(n_invoice_id) THEN n_invoice_id
       ELSE IF SelectSeq(d.columns, IsSchetColumn) # <<>>
            THEN SelectSeq(d.columns, IsSchetColumn)[1]
       ELSE NoColumn

\* Python ==, and the element-wise == of a column with a scalar
PyEq(a, b) == a.t # "nan" /\ b.t # "nan" /\ a = b

\* Python <; a comparison with NaN is False
PyLess(a, b) ==
    IF a.t = "int" /\ b.t = "int" THEN a.v < b.v
    ELSE IF a.t = "str" /\ b.t = "str" THEN ~StrLeq(b.s, a.s)
    ELSE FALSE

\* < between a str and a number (a float NaN included) raises TypeError
Comparable(a, b) == (a.t = "str") = (b.t = "str")

\* Series.unique(): first occurrences in order, the NaNs as one value
RECURSIVE Unique(_)
Unique(seq) ==
    IF seq = <<>> THEN <<>>
    ELSE LET init == Unique(SubSeq(seq, 1, Len(seq) - 1))
             x == seq[Len(seq)]
         IN IF \E i \in 1..Len(init) : init[i] = x THEN init ELSE Append(init, x)

\* sorted() of a short list (listobject.c): count_run finds the leading
\* run, a strictly descending run is reversed, and binarysort inserts
\* each remaining element where bisection by < puts it
PySorted(a) ==
    LET Reverse(seq) == [i \in 1..Len(seq) |-> seq[Len(seq) + 1 - i]]
        RECURSIVE RunEnd(_, _)
        RunEnd(i, desc) ==
            IF i > Len(a) THEN i - 1
            ELSE IF PyLess(a[i], a[i - 1]) = desc THEN RunEnd(i + 1, desc)
            ELSE i - 1
        RECURSIVE Bisect(_, _, _, _)
        Bisect(b, pivot, l, r) ==
            IF l >= r THEN l
            ELSE LET p == l + ((r - l) \div 2)
                 IN IF PyLess(pivot, b[p + 1]) THEN Bisect(b, pivot, l, p)
                    ELSE Bisect(b, pivot, p + 1, r)
        RECURSIVE BinarySort(_, _)
        BinarySort(b, start) ==
            IF start > Len(b) THEN b
            ELSE LET l == Bisect(b, b[start], 0, start - 1)
                 IN BinarySort(SubSeq(b, 1, l) \o <<b[start]>>
                                   \o SubSeq(b, l + 1, start - 1)
                                   \o SubSeq(b, start + 1, Len(b)),
                               start + 1)
    IN IF Len(a) < 2 THEN a
       ELSE LET desc == PyLess(a[2], a[1])
                n == RunEnd(3, desc)
                run1 == IF desc THEN Reverse(SubSeq(a, 1, n)) ELSE SubSeq(a, 1, n)
            IN BinarySort(run1 \o SubSeq(a, n + 1, Len(a)), n + 1)

Returned(x) == [raised |-> "none", val |-> x]
Raised(exc, x) == [raised |-> exc, val |-> x]

\* SchetGenerator.get_available_invoices
schet_get_available_invoices(d) ==
    IF schet_invoice_column(d) = NoColumn THEN Returned(<<>>)
    ELSE LET c == ColumnIndex(d, schet_invoice_column(d))
             u == Unique([r \in 1..Len(d.rows) |-> d.rows[r][c]])
         IN IF \A i, j \in 1..Len(u) : Comparable(u[i], u[j])
            THEN Returned(PySorted(u))
            ELSE Raised("TypeError", <<>>)

\* SchetGenerator.filter_data_by_invoice
schet_filter_data_by_invoice(d, invoice_number) ==
    IF schet_invoice_column(d) = NoColumn THEN d
    ELSE LET c == ColumnIndex(d, schet_invoice_column(d))
             Keep(r) == PyEq(r[c], invoice_number)
         IN DataFrame(d.columns, SelectSeq(d.rows, Keep))

SchetLayouts ==
    {<<n_total>>, <<n_id>>, <<n_invoice_id>>, <<n_Invoice, n_nomer_scheta>>}

SchetValues == {IntVal(7), IntVal(8), StrVal(<<"7">>), NaNVal}

SchetDataFrames ==
    LET FieldValues_(name) ==
            IF name \in {n_total, n_Invoice} THEN {IntVal(7)} ELSE SchetValues
        RowsOf_(L) ==
            {r \in [1..Len(L) -> SchetValues] :
                \A i \in 1..Len(L) : r[i] \in FieldValues_(L[i])}
    IN UNION {{DataFrame(L, rs) : rs \in SeqsUpTo(RowsOf_(L), MaxRows)} :
                 L \in SchetLayouts}

SchetIds == {IntVal(7), StrVal(<<"7">>), StrVal(<<"8">>)}

(***************************************************************************)
(* SpecSchet: SchetGenerator's resolver and filter applied to one          *)
(* DataFrame.                                                              *)
(***************************************************************************)
\* invoices = generator.get_available_invoices(data)
SchetGetAvailableInvoices ==
    /\ ~invoices.done
    /\ invoices' = Done(schet_get_available_invoices(data))
    /\ UNCHANGED <<data, invoice_id, filtered, refiltered>>
    /\ UNCHANGED <<genVars, cntVars, pipeVars>>

\* one call of SchetGenerator.filter_data_by_invoice: what it returns and
\* the DataFrame passed as data as the call leaves it (data[mask] builds a
\* new DataFrame)
schet_filter_call(d, invoice_number) ==
    [ret |-> schet_filter_data_by_invoice(d, invoice_number), data |-> d]

\* filtered_data = generator.filter_data_by_invoice(data, selected_invoice)
SchetFilterDataByInvoice ==
    /\ ~filtered.done
    /\ filtered' = Done(schet_filter_call(data, invoice_id).ret)
    /\ data' = schet_filter_call(data, invoice_id).data
    /\ UNCHANGED <<invoice_id, invoices, refiltered>>
    /\ UNCHANGED <<genVars, cntVars, pipeVars>>

NextSchet ==
    \/ SchetGetAvailableInvoices
    \/ SchetFilterDataByInvoice

(***************************************************************************)
(* The loaders: read_csv_file (both classes) and read_json_file.           *)
(* A data file is described by whether it exists, the narrowest codec of   *)
(* the list utf-8, cp1251, latin1 that decodes its bytes, how parsing the  *)
(* decoded text ends, and the document the parser builds from it.          *)
(***************************************************************************)
Encodings == <<"utf-8", "cp1251", "latin1">>

\* bytes.decode(encoding) succeeds; latin1 decodes every byte sequence
Decodes(bytes, encoding) ==
    \E i, j \in 1..Len(Encodings) :
        Encodings[i] = bytes /\ Encodings[j] = encoding /\ i <= j

\* an except clause that catches decoding errors only
LoaderCaughtDecodeOnly(exc) == exc = "UnicodeDecodeError"

\* except Exception as e
LoaderCaught(exc) ==
    exc \in {"FileNotFoundError", "UnicodeDecodeError", "ParserError",
             "EmptyDataError", "JSONDecodeError", "TypeError"}

\* the exception pd.read_csv(file_path, encoding=encoding) ends with
read_csv_error(file, encoding) ==
    IF ~file.exists THEN "FileNotFoundError"
    ELSE IF ~Decodes(file.bytes, encoding) THEN "UnicodeDecodeError"
    ELSE file.parse

\* tried lists the encodings read_csv_file handed to pd.read_csv, "ignore"
\* standing for the read with errors='ignore'
NoLoad ==
    [done |-> FALSE, raised |-> "none", val |-> ListData(<<>>), encoding |-> "none",
     tried |-> <<>>]

LoadReturn(x, encoding) ==
    [done |-> TRUE, raised |-> "none", val |-> x, encoding |-> encoding, tried |-> <<>>]

\* the outer try / except Exception of a loader, returning empty on a catch
LoadExcept(exc, empty) ==
    IF LoaderCaught(exc) THEN LoadReturn(empty, "none")
    ELSE [done |-> TRUE, raised |-> exc, val |-> empty, encoding |-> "none",
          tried |-> <<>>]

\* read_csv_file that goes on to the next encoding after a successful read
read_csv_file_last(file) ==
    LET ok == {i \in 1..Len(Encodings) : read_csv_error(file, Encodings[i]) = "none"}
        last == CHOOSE i \in ok : \A j \in ok : j <= i
    IN IF ok = {}
       THEN [LoadExcept(read_csv_error(file, "latin1"), DataFrame(<<>>, <<>>))
                EXCEPT !.tried = Encodings]
       ELSE [LoadReturn(file.doc, Encodings[last]) EXCEPT !.tried = Encodings]

read_csv_file(file) ==
    LET RECURSIVE Try(_)
        Try(i) ==
            IF i > Len(Encodings)
            THEN \* pd.read_csv(..., errors='ignore'): read_csv has no such keyword
                 [LoadExcept("TypeError", DataFrame(<<>>, <<>>))
                     EXCEPT !.tried = Encodings \o <<"ignore">>]
            ELSE LET exc == read_csv_error(file, Encodings[i])
                     tried == SubSeq(Encodings, 1, i)
                 IN IF exc = "none"
                    THEN [LoadReturn(file.doc, Encodings[i]) EXCEPT !.tried = tried]
                    ELSE IF exc = "UnicodeDecodeError" THEN Try(i + 1)
                    ELSE [LoadExcept(exc, DataFrame(<<>>, <<>>)) EXCEPT !.tried = tried]
    IN Try(1)

\* a parsed JSON document: a top-level list of items, or one other value
JList(its) == [islist |-> TRUE, items |-> its, item |-> ScalarItem(IntVal(0))]
JOne(item) == [islist |-> FALSE, items |-> <<>>, item |-> item]

\* read_json_file that hands the parsed items on without wrapping
json_not_wrapped(doc) == doc.items

\* if not isinstance(data, list): data = [data]
json_as_list(doc) == IF doc.islist THEN doc.items ELSE <<doc.item>>

read_json_file(file) ==
    LET exc == IF ~file.exists THEN "FileNotFoundError"
               ELSE IF ~Decodes(file.bytes, "utf-8") THEN "UnicodeDecodeError"
               ELSE file.parse
    IN IF exc = "none" THEN LoadReturn(ListData(json_as_list(file.doc)), "utf-8")
       ELSE LoadExcept(exc, ListData(<<>>))

\* a nested JSON object held as a field value
NestedVal(n) == [t |-> "dict", v |-> n, s |-> <<>>]

CsvFiles ==
    {[kind |-> "csv", exists |-> e, bytes |-> b, parse |-> p, doc |-> d] :
        e \in BOOLEAN, b \in {"utf-8", "cp1251", "latin1"},
        p \in {"none", "ParserError", "EmptyDataError"},
        d \in {DataFrame(<<n_id>>, rs) : rs \in SeqsUpTo(RowsOf(<<n_id>>), MaxRows)}}

JsonItems ==
    {DictItem(<<[k |-> n_id, v |-> IntVal(7)]>>),
     DictItem(<<[k |-> n_id, v |-> StrVal(<<"A">>)], [k |-> n_total, v |-> NestedVal(1)]>>),
     ScalarItem(IntVal(7))}

JsonFiles ==
    {[kind |-> "json", exists |-> e, bytes |-> b, parse |-> p, doc |-> d] :
        e \in BOOLEAN, b \in {"utf-8", "cp1251"}, p \in {"none", "JSONDecodeError"},
        d \in {JList(its) : its \in SeqsUpTo(JsonItems, MaxRows)}
                \cup {JOne(item) : item \in JsonItems}}

(***************************************************************************)
(* SpecLoad: one loader call on one data file.                             *)
(***************************************************************************)
\* data = generator.read_csv_file(selected_data_file)
ReadCsvFile ==
    /\ src_file.kind = "csv"
    /\ ~loaded.done
    /\ loaded' = read_csv_file(src_file)
    /\ UNCHANGED <<src_file, template, rendered, run, issued>>
    /\ UNCHANGED <<dataVars, genVars, cntVars>>

\* data = generator.read_json_file(selected_data_file)
ReadJsonFile ==
    /\ src_file.kind = "json"
    /\ ~loaded.done
    /\ loaded' = read_json_file(src_file)
    /\ UNCHANGED <<src_file, template, rendered, run, issued>>
    /\ UNCHANGED <<dataVars, genVars, cntVars>>

NextLoad ==
    \/ ReadCsvFile
    \/ ReadJsonFile

(***************************************************************************)
(* render_template.  Text is a sequence of characters; a piece of markup   *)
(* that holds no brace ("<table>", the style block) is written as one      *)
(* element.                                                                *)
(***************************************************************************)
MaxSegments == 2

n_css_styles == <<"c", "s", "s", "_", "s", "t", "y", "l", "e", "s">>
n_data_table == <<"d", "a", "t", "a", "_", "t", "a", "b", "l", "e">>
n_note == <<"n", "o", "t", "e">>

\* '{{name}}', f'{{{{{col}}}}}'
Placeholder(name) == <<"{", "{">> \o name \o <<"}", "}">>

\* str.replace(old, new): every occurrence, left to right, not overlapping
\* (the leftmost occurrence is replaced, then the text after it)
RECURSIVE Replace(_, _, _)
Replace(s, old, new) ==
    LET found == {i \in 1..(Len(s) - Len(old) + 1) : SubSeq(s, i, i + Len(old) - 1) = old}
        first == CHOOSE i \in found : \A j \in found : i <= j
    IN IF found = {} THEN s
       ELSE SubSeq(s, 1, first - 1) \o new
              \o Replace(SubSeq(s, first + Len(old), Len(s)), old, new)

RECURSIVE Flatten(_)
Flatten(seqs) == IF seqs = <<>> THEN <<>> ELSE Head(seqs) \o Flatten(Tail(seqs))

\* self.css_styles
css_styles == <<"<style>">>

\* pd.DataFrame(data) of a list of records: the keys in order of first
\* appearance are the columns, a record without a key has NaN there
records_frame(items) ==
    LET RECURSIVE Keys(_)
        Keys(n) ==
            IF n = 0 THEN <<>>
            ELSE LET new(p) == \A i \in 1..Len(Keys(n - 1)) : Keys(n - 1)[i] # p.k
                     ps == SelectSeq(items[n].pairs, new)
                 IN Keys(n - 1) \o [i \in 1..Len(ps) |-> ps[i].k]
        cols == Keys(Len(items))
        Cell(item, col) ==
            IF \E i \in 1..Len(item.pairs) : item.pairs[i].k = col
            THEN item.pairs[CHOOSE i \in 1..Len(item.pairs) : item.pairs[i].k = col].v
            ELSE NaNVal
    IN DataFrame(cols, [r \in 1..Len(items) |->
                           [c \in 1..Len(cols) |-> Cell(items[r], cols[c])]])

\* DataFrame.to_html(index=False, classes='items-table', escape=False):
\* a header cell per column, a row per record; a number in a column that
\* also holds NaN is a float
to_html(d) ==
    LET Floats(c) ==
            /\ \E r \in 1..Len(d.rows) : d.rows[r][c].t = "nan"
            /\ \A r \in 1..Len(d.rows) : d.rows[r][c].t \in {"nan", "int"}
        CellText(r, c) ==
            IF d.rows[r][c].t = "nan" THEN <<"N", "a", "N">>
            ELSE IF d.rows[r][c].t = "int" /\ Floats(c)
                 THEN Str(d.rows[r][c]) \o <<".", "0">>
            ELSE Str(d.rows[r][c])
    IN <<"<table>">>
         \o Flatten([c \in 1..Len(d.columns) |-> <<"<th>">> \o d.columns[c]])
         \o Flatten([r \in 1..Len(d.rows) |->
                <<"<tr>">> \o Flatten([c \in 1..Len(d.columns) |->
                                          <<"<td>">> \o CellText(r, c)])])

\* the fields of the last record
last_record_fields(d) ==
    IF d.kind = "df"
    THEN [c \in 1..Len(d.columns) |-> [k |-> d.columns[c], v |-> d.rows[Len(d.rows)][c]]]
    ELSE d.items[Len(d.items)].pairs

\* the fields of every record, one record after the other
all_record_fields(d) ==
    IF d.kind = "df"
    THEN Flatten([r \in 1..Len(d.rows) |->
             [c \in 1..Len(d.columns) |-> [k |-> d.columns[c], v |-> d.rows[r][c]]]])
    ELSE Flatten([i \in 1..Len(d.items) |-> d.items[i].pairs])

\* (col, data.iloc[0][col]) for col in data.columns; data[0].items()
first_record_fields(d) ==
    IF d.kind = "df"
    THEN [c \in 1..Len(d.columns) |-> [k |-> d.columns[c], v |-> d.rows[1][c]]]
    ELSE d.items[1].pairs

\* for key, value in ...: html_content = html_content.replace(placeholder, str(value))
RECURSIVE substitute_fields(_, _)
substitute_fields(html, fields) ==
    IF fields = <<>> THEN html
    ELSE substitute_fields(Replace(html, Placeholder(Head(fields).k), Str(Head(fields).v)),
                           Tail(fields))

\* an except clause that catches I/O errors only
RenderCaughtOSErrorOnly(exc) == exc = "FileNotFoundError"

\* except Exception as e
RenderCaught(exc) ==
    exc \in {"FileNotFoundError", "UnicodeDecodeError", "AttributeError",
             "TypeError", "ValueError"}

NoRender ==
    [done |-> FALSE, by |-> "none", raised |-> "none", printed |-> "none", val |-> <<>>]

\* return html_content, or the except branch: print the error, return "";
\* an exception the clause does not catch leaves the call
RenderEnd(by, exc, html) ==
    IF exc = "none"
    THEN [done |-> TRUE, by |-> by, raised |-> "none", printed |-> "none", val |-> html]
    ELSE IF RenderCaught(exc)
    THEN [done |-> TRUE, by |-> by, raised |-> "none", printed |-> exc, val |-> <<>>]
    ELSE [done |-> TRUE, by |-> by, raised |-> exc, printed |-> "none", val |-> <<>>]

\* with open(template_path, 'r', encoding='utf-8') as f: f.read()
read_template_error(tpl) ==
    IF ~tpl.exists THEN "FileNotFoundError"
    ELSE IF tpl.bytes # "utf-8" THEN "UnicodeDecodeError"
    ELSE "none"

\* PDFGenerator.render_template
render_template(tpl, d, id) ==
    LET h1 == Replace(tpl.text, Placeholder(n_invoice_id), id)
        h2 == Replace(h1, Placeholder(n_css_styles), css_styles)
    IN IF read_template_error(tpl) # "none"
       THEN RenderEnd("pdf", read_template_error(tpl), <<>>)
       ELSE IF d.kind = "df" THEN
           IF d.rows # <<>>
           THEN RenderEnd("pdf", "none",
                    substitute_fields(Replace(h2, Placeholder(n_data_table), to_html(d)),
                                      first_record_fields(d)))
           ELSE RenderEnd("pdf", "none", h2)
       ELSE IF d.items # <<>> THEN
           IF ~d.items[1].isdict
           THEN \* data[0].items() of a value that is no dict
                RenderEnd("pdf", "AttributeError", <<>>)
           ELSE RenderEnd("pdf", "none",
                    substitute_fields(
                        Replace(h2, Placeholder(n_data_table),
                                to_html(records_frame(d.items))),
                        first_record_fields(d)))
       ELSE RenderEnd("pdf", "none", h2)

\* the texts a template file may hold: up to MaxSegments placeholders and
\* letters in a row
Segments ==
    {Placeholder(n_invoice_id), Placeholder(n_css_styles), Placeholder(n_data_table),
     Placeholder(n_id), Placeholder(n_total), Placeholder(n_note), <<"a">>}

TemplateFiles ==
    {[exists |-> TRUE, bytes |-> "utf-8", text |-> Flatten(ss)] :
        ss \in SeqsUpTo(Segments, MaxSegments)}
      \cup {[exists |-> FALSE, bytes |-> "utf-8", text |-> <<>>],
            [exists |-> TRUE, bytes |-> "cp1251", text |-> Placeholder(n_invoice_id)]}

NoTemplate == [exists |-> FALSE, bytes |-> "utf-8", text |-> <<>>]

\* the datasets handed to render_template: lists of up to two records, a
\* list holding a bare number, DataFrames of up to two rows
RenderDatasets ==
    LET Record(ks, vs) == DictItem([i \in 1..Len(ks) |-> [k |-> ks[i], v |-> vs[i]]])
        records ==
            {Record(<<n_id>>, <<IntVal(7)>>),
             Record(<<n_id, n_total>>, <<StrVal(Placeholder(n_total)), IntVal(8)>>),
             Record(<<n_id, n_note>>, <<StrVal(<<"A">>), StrVal(<<"B">>)>>),
             Record(<<n_total, n_note>>, <<IntVal(7), StrVal(<<"B">>)>>)}
        rows ==
            {<<IntVal(7), IntVal(8)>>, <<StrVal(Placeholder(n_total)), IntVal(7)>>,
             <<StrVal(<<"A">>), NaNVal>>}
    IN {ListData(its) : its \in SeqsUpTo(records, 2)}
         \cup {ListData(<<ScalarItem(IntVal(7))>>)}
         \cup {DataFrame(<<n_id, n_total>>, rs) : rs \in SeqsUpTo(rows, 2)}
         \cup {DataFrame(<<>>, <<>>)}

RenderIds == {<<"7">>, Placeholder(n_css_styles)}

(***************************************************************************)
(* SchetGenerator.render_template.  The Russian column and placeholder     *)
(* names and the fixed texts are transliterated; a date is one element.    *)
(***************************************************************************)
ru ==
    [data |-> <<"d", "a", "t", "a">>,
     klient |-> <<"k", "l", "i", "e", "n", "t">>,
     srok_oplaty |-> <<"s", "r", "o", "k", "_", "o", "p", "l", "a", "t", "y">>,
     status |-> <<"s", "t", "a", "t", "u", "s">>,
     status_klass |-> <<"s", "t", "a", "t", "u", "s", "_", "k", "l", "a", "s", "s">>,
     obshchaya_summa |-> <<"o", "b", "s", "h", "c", "h", "a", "y", "a", "_",
                           "s", "u", "m", "m", "a">>,
     tovar |-> <<"t", "o", "v", "a", "r">>,
     kolichestvo |-> <<"k", "o", "l", "i", "c", "h", "e", "s", "t", "v", "o">>,
     tsena_za_edinitsu |-> <<"t", "s", "e", "n", "a", "_", "z", "a", "_",
                             "e", "d", "i", "n", "i", "t", "s", "u">>,
     oplachen |-> <<"o", "p", "l", "a", "c", "h", "e", "n">>]

\* datetime.now().strftime('%Y-%m-%d')
today == <<"2024-12-31">>

\* the date texts of the model and the dates they spell
Calendar ==
    {[text |-> <<"2024-01-25">>, y |-> 2024, m |-> 1, d |-> 25],
     [text |-> <<"2024-02-04">>, y |-> 2024, m |-> 2, d |-> 4],
     [text |-> <<"2024-02-25">>, y |-> 2024, m |-> 2, d |-> 25],
     [text |-> <<"2024-03-06">>, y |-> 2024, m |-> 3, d |-> 6],
     [text |-> <<"2024-12-31">>, y |-> 2024, m |-> 12, d |-> 31],
     [text |-> <<"2025-01-10">>, y |-> 2025, m |-> 1, d |-> 10]}

\* timedelta(days=10)
DueDays == 10

\* invoice_date + timedelta(days=n), a day at a time
RECURSIVE add_days(_, _)
add_days(date, n) ==
    LET leap == date.y % 4 = 0 /\ (date.y % 100 # 0 \/ date.y % 400 = 0)
        last == IF date.m = 2 THEN (IF leap THEN 29 ELSE 28)
                ELSE IF date.m \in {4, 6, 9, 11} THEN 30 ELSE 31
        next == IF date.d < last THEN [date EXCEPT !.d = @ + 1]
                ELSE IF date.m < 12 THEN [date EXCEPT !.m = @ + 1, !.d = 1]
                ELSE [y |-> date.y + 1, m |-> 1, d |-> 1]
    IN IF n = 0 THEN date ELSE add_days(next, n - 1)

\* due_date = invoice_date + timedelta(days=10)
due_date(date) == add_days(date, DueDays)

\* datetime.strptime(text, '%Y-%m-%d') + timedelta(days=10), formatted
\* again; <<>> when strptime raises ValueError
plus_ten_days(text) ==
    LET strptime == {c \in Calendar : c.text = text}
        parsed == CHOOSE c \in strptime : TRUE
        due == due_date([y |-> parsed.y, m |-> parsed.m, d |-> parsed.d])
        strftime == CHOOSE c \in Calendar : c.y = due.y /\ c.m = due.m /\ c.d = due.d
    IN IF strptime = {} THEN <<>> ELSE strftime.text

\* f"{value:,.2f}" of a number below one million, 'nan' for NaN
money(val) ==
    IF val.t = "nan" THEN <<"n", "a", "n">>
    ELSE IF val.v < 1000 THEN IntToStr(val.v) \o <<".", "0", "0">>
    ELSE IntToStr(val.v \div 1000) \o <<",">>
           \o <<DigitChar((val.v % 1000) \div 100), DigitChar((val.v % 100) \div 10),
                DigitChar(val.v % 10)>>
           \o <<".", "0", "0">>

\* Series.sum(): NaN cells are skipped
RECURSIVE column_sum(_, _)
column_sum(rows, c) ==
    IF rows = <<>> THEN 0
    ELSE (IF Head(rows)[c].t = "int" THEN Head(rows)[c].v ELSE 0) + column_sum(Tail(rows), c)

\* SchetGenerator.render_template, calculate_totals included
schet_render_template(tpl, d, invoice_number) ==
    LET Has(col) == \E c \in 1..Len(d.columns) : d.columns[c] = col
        empty == d.rows = <<>>
        \* row.get(col, default)
        Get(r, col, default) == IF Has(col) THEN d.rows[r][ColumnIndex(d, col)] ELSE default
        \* first_row.get(col, default), first_row = {} for an empty DataFrame
        First(col, default) == IF empty THEN default ELSE Get(1, col, default)
        sum_col == IF Has(ru.obshchaya_summa) THEN ru.obshchaya_summa
                   ELSE IF Has(n_total) THEN n_total ELSE NoColumn
        HasStr(col) ==
            Has(col) /\ \E r \in 1..Len(d.rows) : d.rows[r][ColumnIndex(d, col)].t = "str"
        total == IF empty \/ sum_col = NoColumn THEN IntVal(0)
                 ELSE IntVal(column_sum(d.rows, ColumnIndex(d, sum_col)))
        status == IF ~empty /\ Has(ru.status) THEN Str(First(ru.status, NaNVal))
                  ELSE <<"Ozhidaet oplaty">>
        status_class ==
            IF ~empty /\ Has(ru.status) /\ Contains(LowerStr(status), ru.oplachen)
            THEN <<"status-paid">> ELSE <<"status-pending">>
        date == Str(First(ru.data, StrVal(today)))
        due == IF plus_ten_days(date) # <<>> THEN plus_ten_days(date) ELSE today
        table ==
            IF empty THEN <<"<p>Dannye ne naydeny</p>">>
            ELSE <<"<table>", "<th>", "N", "<th>", "Tovar", "<th>", "Kolichestvo",
                   "<th>", "Tsena", "<th>", "Summa">>
                   \o Flatten([r \in 1..Len(d.rows) |->
                        <<"<tr>", "<td>">> \o IntToStr(r)
                          \o <<"<td>">> \o Str(Get(r, ru.tovar, StrVal(<<>>)))
                          \o <<"<td>">> \o Str(Get(r, ru.kolichestvo, StrVal(<<>>)))
                          \o <<"<td>">> \o money(Get(r, ru.tsena_za_edinitsu, IntVal(0)))
                          \o <<"<td>">> \o money(Get(r, ru.obshchaya_summa, IntVal(0)))])
        exc ==
            IF read_template_error(tpl) # "none" THEN read_template_error(tpl)
            ELSE IF ~empty /\ sum_col # NoColumn /\ HasStr(sum_col)
                 THEN "TypeError"         \* sum() or :,.2f of strings
            ELSE IF ~empty /\ Has(ru.status) /\ First(ru.status, NaNVal).t # "str"
                 THEN "AttributeError"    \* status.lower() of a number
            ELSE IF ~empty /\ (HasStr(ru.tsena_za_edinitsu) \/ HasStr(ru.obshchaya_summa))
                 THEN "ValueError"        \* :,.2f of a string cell
            ELSE "none"
        h1 == Replace(tpl.text, Placeholder(n_nomer_scheta), invoice_number)
        h2 == Replace(h1, Placeholder(ru.data), date)
        h3 == Replace(h2, Placeholder(ru.klient), Str(First(ru.klient, StrVal(<<"Ne ukazan">>))))
        h4 == Replace(h3, Placeholder(n_css_styles), css_styles)
        h5 == Replace(h4, Placeholder(ru.srok_oplaty), due)
        h6 == Replace(h5, Placeholder(ru.status), status)
        h7 == Replace(h6, Placeholder(ru.status_klass), status_class)
        h8 == Replace(h7, Placeholder(ru.obshchaya_summa), money(total))
    IN IF exc # "none" THEN RenderEnd("schet", exc, <<>>)
       ELSE RenderEnd("schet", "none", Replace(h8, Placeholder(n_data_table), table))

SchetSegments ==
    {Placeholder(n_nomer_scheta), Placeholder(ru.data), Placeholder(ru.srok_oplaty),
     Placeholder(ru.status), Placeholder(ru.obshchaya_summa), Placeholder(n_data_table),
     Placeholder(n_note), <<"a">>}

SchetTemplateFiles ==
    {[exists |-> TRUE, bytes |-> "utf-8", text |-> Flatten(ss)] :
        ss \in SeqsUpTo(SchetSegments, MaxSegments)}
      \cup {[exists |-> FALSE, bytes |-> "utf-8", text |-> <<>>]}

\* DataFrames of up to two rows handed to SchetGenerator.render_template
SchetRenderFrames ==
    LET first == {<<d, s, t, StrVal(<<"X">>)>> :
                     d \in {StrVal(<<"2024-01-25">>), StrVal(<<"25.01.2024">>), NaNVal},
                     s \in {StrVal(ru.oplachen), IntVal(7)},
                     t \in {IntVal(7), IntVal(1000), StrVal(<<"7">>)}}
        second == {<<StrVal(<<"2024-02-25">>), StrVal(<<"n", "e", "t">>), IntVal(8),
                     StrVal(<<"Y">>)>>}
        cols == <<ru.data, ru.status, ru.obshchaya_summa, ru.tovar>>
    IN {DataFrame(cols, <<>>), DataFrame(<<ru.tovar>>, <<<<StrVal(<<"X">>)>>>>)}
         \cup {DataFrame(cols, <<r>>) : r \in first}
         \cup {DataFrame(cols, <<r, s>>) :
                  r \in {x \in first : x[3] = IntVal(7)}, s \in second}

\* the calls of render_template: the class, the template, the dataset, the id
RenderCalls ==
    {[by |-> "pdf", template |-> t, data |-> d, id |-> i] :
        t \in TemplateFiles, d \in RenderDatasets, i \in RenderIds}
      \cup {[by |-> "schet", template |-> t, data |-> d, id |-> i] :
              t \in SchetTemplateFiles, d \in SchetRenderFrames,
              i \in {<<"7">>}}

(***************************************************************************)
(* SpecRender: one render_template call on one template and one dataset.   *)
(***************************************************************************)
\* html_content = generator.render_template(template, filtered_data, invoice)
RenderTemplate ==
    /\ ~rendered.done
    /\ rendered.by = "pdf"
    /\ rendered' = render_template(template, data, invoice_id)
    /\ UNCHANGED <<src_file, loaded, template, run, issued>>
    /\ UNCHANGED <<dataVars, genVars, cntVars>>

\* html_content = self.render_template(selected_template, filtered_data, ...)
SchetRenderTemplate ==
    /\ ~rendered.done
    /\ rendered.by = "schet"
    /\ rendered' = schet_render_template(template, data, invoice_id)
    /\ UNCHANGED <<src_file, loaded, template, run, issued>>
    /\ UNCHANGED <<dataVars, genVars, cntVars>>

NextRender ==
    \/ RenderTemplate
    \/ SchetRenderTemplate

(***************************************************************************)
(* generate_pdf and its backends.                                          *)
(* A backend run ends in one of three ways: "ok", "fail_early" (an         *)
(* exception before the destination was opened) or "fail_late" (an         *)
(* exception after the destination was opened for writing).                *)
(***************************************************************************)
BackendOutcomes == {"ok", "fail_early", "fail_late"}

\* field names read by the ReportLab backends
n_items == <<"i", "t", "e", "m", "s">>
n_customer == <<"c", "u", "s", "t", "o", "m", "e", "r">>

\* a JSON array held as a field value
ListVal == [t |-> "list", v |-> 0, s |-> <<>>]

\* the line "Obshchaya summa: ..." of the story: whether it is laid out and
\* the value it shows
NoTotal == [shown |-> FALSE, val |-> IntVal(0)]
ShownTotal(val) == [shown |-> TRUE, val |-> val]

\* float(x): a number, NaN, or ValueError / TypeError
float(val) ==
    LET RECURSIVE Number(_)
        Number(cs) ==
            IF cs = <<>> THEN 0
            ELSE 10 * Number(SubSeq(cs, 1, Len(cs) - 1))
                   + (CHOOSE n \in 0..9 : DigitChar(n) = cs[Len(cs)])
        digits(cs) == cs # <<>> /\ \A i \in 1..Len(cs) : \E n \in 0..9 : DigitChar(n) = cs[i]
    IN CASE val.t = "int" -> [exc |-> "none", val |-> val]
         [] val.t = "nan" -> [exc |-> "none", val |-> NaNVal]
         [] val.t = "str" -> IF digits(val.s) THEN [exc |-> "none", val |-> IntVal(Number(val.s))]
                             ELSE [exc |-> "ValueError", val |-> NaNVal]
         [] OTHER -> [exc |-> "TypeError", val |-> NaNVal]

\* total_sum = 0; for each row: try: total_sum += float(row.get(col, 0))
\* except (ValueError, TypeError): pass
RECURSIVE total_sum(_, _, _)
total_sum(d, col, n) ==
    LET has == \E c \in 1..Len(d.columns) : d.columns[c] = col
        cell == IF has THEN d.rows[n][ColumnIndex(d, col)] ELSE IntVal(0)
        sum == total_sum(d, col, n - 1)
    IN IF n = 0 THEN IntVal(0)
       ELSE IF float(cell).exc # "none" THEN sum
       ELSE IF sum.t = "nan" \/ float(cell).val.t = "nan" THEN NaNVal
       ELSE IntVal(sum.v + float(cell).val.v)

\* the story PDFGenerator._generate_pdf_reportlab builds from the dataset:
\* the exception building it ends with, and its grand total
reportlab_story(d) ==
    LET first == d.items[1]
        Has(name) == \E i \in 1..Len(first.pairs) : first.pairs[i].k = name
        Get(name, default) ==
            IF Has(name) THEN first.pairs[CHOOSE i \in 1..Len(first.pairs) :
                                             first.pairs[i].k = name].v
            ELSE default
    IN IF d.kind = "df"
       THEN [exc |-> "none",
             total |-> IF d.rows = <<>> THEN NoTotal
                       ELSE ShownTotal(total_sum(d, n_total, Len(d.rows)))]
       ELSE IF d.items = <<>> THEN [exc |-> "none", total |-> NoTotal]
       ELSE IF ~first.isdict \/ (Has(n_customer) /\ Get(n_customer, ListVal).t # "dict")
            THEN [exc |-> "AttributeError", total |-> NoTotal]   \* .get of a non-dict
       ELSE [exc |-> "none",
             \* total = first_item.get('total', 0), under the items table only
             total |-> IF Get(n_items, NaNVal).t = "list"
                       THEN ShownTotal(Get(n_total, IntVal(0)))
                       ELSE NoTotal]

\* the story SchetGenerator._generate_pdf_reportlab builds from the dataset
schet_reportlab_story(d) ==
    LET Has(col) == \E c \in 1..Len(d.columns) : d.columns[c] = col
        \* f"{row.get(col, 0):,.2f}" raises for a cell that is no number
        Unformattable(col) ==
            Has(col) /\ \E r \in 1..Len(d.rows) :
                            d.rows[r][ColumnIndex(d, col)].t \notin {"int", "nan"}
    IN IF d.kind # "df" THEN [exc |-> "AttributeError", total |-> NoTotal]  \* data.empty
       ELSE IF d.rows = <<>> THEN [exc |-> "none", total |-> NoTotal]
       ELSE IF Unformattable(ru.tsena_za_edinitsu) \/ Unformattable(ru.obshchaya_summa)
            THEN [exc |-> "ValueError", total |-> NoTotal]
       ELSE [exc |-> "none",
             total |-> ShownTotal(total_sum(d, ru.obshchaya_summa, Len(d.rows)))]

NoFile ==
    [kind |-> "absent", by |-> "none", html |-> "", data |-> ListData(<<>>), id |-> <<>>,
     total |-> NoTotal]
OldFile ==
    [kind |-> "old", by |-> "none", html |-> "", data |-> ListData(<<>>), id |-> <<>>,
     total |-> NoTotal]
PartialFile(b) ==
    [kind |-> "partial", by |-> b, html |-> "", data |-> ListData(<<>>), id |-> <<>>,
     total |-> NoTotal]
HtmlPdf(html) ==
    [kind |-> "pdf", by |-> "weasyprint", html |-> html, data |-> ListData(<<>>), id |-> <<>>,
     total |-> NoTotal]
DataPdf(d, id) ==
    [kind |-> "pdf", by |-> "reportlab", html |-> "", data |-> d, id |-> id,
     total |-> reportlab_story(d).total]
SchetDataPdf(d, id) ==
    [kind |-> "pdf", by |-> "reportlab", html |-> "", data |-> d, id |-> id,
     total |-> schet_reportlab_story(d).total]

\* generate_pdf testing REPORTLAB_AVAILABLE first
SelectBackendReportlabFirst(wp, rl) ==
    IF rl THEN "reportlab"
    ELSE IF wp THEN "weasyprint"
    ELSE "none"

\* generate_pdf with a plain else in place of the elif
SelectBackendNoElif(wp, rl) ==
    IF wp THEN "weasyprint"
    ELSE "reportlab"

\* the if / elif / else of generate_pdf
SelectBackend(wp, rl) ==
    IF wp THEN "weasyprint"
    ELSE IF rl THEN "reportlab"
    ELSE "none"

\* try: HTML(string=html_content).write_pdf(path); return True
\* except Exception: return False
generate_pdf_weasyprint(html, file, outcome) ==
    CASE outcome = "ok" -> [ret |-> TRUE, file |-> HtmlPdf(html)]
      [] outcome = "fail_early" -> [ret |-> FALSE, file |-> file]
      [] OTHER -> [ret |-> FALSE, file |-> PartialFile("weasyprint")]

\* try: ... doc.build(story); return True
\* except Exception: return False
generate_pdf_reportlab(d, id, file, outcome) ==
    CASE reportlab_story(d).exc # "none" -> [ret |-> FALSE, file |-> file]
      [] outcome = "ok" -> [ret |-> TRUE, file |-> DataPdf(d, id)]
      [] outcome = "fail_early" -> [ret |-> FALSE, file |-> file]
      [] OTHER -> [ret |-> FALSE, file |-> PartialFile("reportlab")]

\* SchetGenerator._generate_pdf_reportlab
schet_generate_pdf_reportlab(d, id, file, outcome) ==
    CASE schet_reportlab_story(d).exc # "none" -> [ret |-> FALSE, file |-> file]
      [] outcome = "ok" -> [ret |-> TRUE, file |-> SchetDataPdf(d, id)]
      [] outcome = "fail_early" -> [ret |-> FALSE, file |-> file]
      [] OTHER -> [ret |-> FALSE, file |-> PartialFile("reportlab")]

NoArgs == [html |-> "", data |-> ListData(<<>>), id |-> <<>>]

\* generate_pdf falling back to ReportLab when the WeasyPrint call failed
generate_pdf_fallback(html, file, d, id, wp, rl, outcome) ==
    IF wp /\ outcome # "ok" /\ rl
    THEN [invoked |-> {"weasyprint", "reportlab"},
          args |-> [html |-> html, data |-> d, id |-> id],
          ret |-> TRUE, raised |-> FALSE, file |-> DataPdf(d, id)]
    ELSE IF wp
    THEN LET r == generate_pdf_weasyprint(html, file, outcome)
         IN [invoked |-> {"weasyprint"},
             args |-> [html |-> html, data |-> ListData(<<>>), id |-> <<>>],
             ret |-> r.ret, raised |-> FALSE, file |-> r.file]
    ELSE IF rl
    THEN LET r == generate_pdf_reportlab(d, id, file, outcome)
         IN [invoked |-> {"reportlab"},
             args |-> [html |-> "", data |-> d, id |-> id],
             ret |-> r.ret, raised |-> FALSE, file |-> r.file]
    ELSE [invoked |-> {}, args |-> NoArgs, ret |-> FALSE, raised |-> FALSE,
          file |-> file]

\* the whole call: which backend ran, what it was given, what came back,
\* and the destination afterwards
generate_pdf(html, file, d, id, wp, rl, outcome) ==
    LET backend == SelectBackend(wp, rl)
    IN CASE backend = "weasyprint" ->
              LET r == generate_pdf_weasyprint(html, file, outcome)
              IN [invoked |-> {"weasyprint"},
                  args |-> [html |-> html, data |-> ListData(<<>>), id |-> <<>>],
                  ret |-> r.ret, raised |-> FALSE, file |-> r.file]
         [] backend = "reportlab" ->
              LET r == generate_pdf_reportlab(d, id, file, outcome)
              IN [invoked |-> {"reportlab"},
                  args |-> [html |-> "", data |-> d, id |-> id],
                  ret |-> r.ret, raised |-> FALSE, file |-> r.file]
         [] OTHER ->
              [invoked |-> {}, args |-> NoArgs, ret |-> FALSE, raised |-> FALSE,
               file |-> file]

\* SchetGenerator.generate_pdf: the same if / elif / else, with the
\* ReportLab backend of SchetGenerator
schet_generate_pdf(html, file, d, id, wp, rl, outcome) ==
    LET g == generate_pdf(html, file, d, id, wp, rl, outcome)
        r == schet_generate_pdf_reportlab(d, id, file, outcome)
    IN IF g.invoked = {"reportlab"} THEN [g EXCEPT !.ret = r.ret, !.file = r.file]
       ELSE g

\* generate_pdf of the class the generator object belongs to
class_generate_pdf(by, html, file, d, id, wp, rl, outcome) ==
    IF by = "schet" THEN schet_generate_pdf(html, file, d, id, wp, rl, outcome)
    ELSE generate_pdf(html, file, d, id, wp, rl, outcome)

(***************************************************************************)
(* SpecGen: a caller prepares a document and calls generate_pdf.           *)
(***************************************************************************)
HtmlTexts == {"<html>INV-1</html>", "<html>INV-2</html>"}

\* the datasets handed to PDFGenerator.generate_pdf
GenDatasets ==
    LET Record(ks, vs) == DictItem([i \in 1..Len(ks) |-> [k |-> ks[i], v |-> vs[i]]])
        Frame(totals) ==
            DataFrame(<<n_id, n_total>>, [r \in 1..Len(totals) |-> <<IntVal(7), totals[r]>>])
    IN {DataFrame(<<n_id, n_total>>, <<<<StrVal(<<"A">>), IntVal(7)>>>>),
        ListData(<<DictItem(<<[k |-> n_id, v |-> IntVal(7)]>>)>>),
        Frame(<<IntVal(7), IntVal(8)>>),
        Frame(<<IntVal(7), NaNVal>>),
        Frame(<<StrVal(<<"A">>), IntVal(8)>>),
        DataFrame(<<n_id>>, <<<<IntVal(7)>>>>),
        DataFrame(<<n_id, n_total>>, <<>>),
        ListData(<<Record(<<n_id, n_total, n_items>>, <<IntVal(7), IntVal(7), ListVal>>),
                   Record(<<n_id, n_total, n_items>>, <<IntVal(7), IntVal(8), ListVal>>)>>),
        ListData(<<Record(<<n_id, n_total, n_items>>, <<IntVal(7), IntVal(7), ListVal>>)>>),
        ListData(<<Record(<<n_id, n_total>>, <<IntVal(7), IntVal(7)>>)>>),
        ListData(<<ScalarItem(IntVal(7))>>)}

\* the DataFrames handed to SchetGenerator.generate_pdf
SchetGenFrames ==
    LET Frame(cells) ==
            DataFrame(<<n_nomer_scheta, ru.tsena_za_edinitsu, ru.obshchaya_summa>>,
                      [r \in 1..Len(cells) |-> <<IntVal(7), cells[r][1], cells[r][2]>>])
    IN {Frame(<<<<IntVal(7), IntVal(7)>>>>),
        Frame(<<<<IntVal(7), IntVal(7)>>, <<IntVal(8), IntVal(8)>>>>),
        Frame(<<<<IntVal(7), IntVal(7)>>, <<IntVal(8), NaNVal>>>>),
        Frame(<<<<IntVal(7), StrVal(<<"A">>)>>, <<IntVal(8), IntVal(8)>>>>),
        DataFrame(<<n_nomer_scheta>>, <<<<IntVal(7)>>>>),
        Frame(<<>>)}

GenInputs(by) == IF by = "schet" THEN SchetGenFrames ELSE GenDatasets

GenIds == {<<"7">>, <<"A">>}

NoCall ==
    [called |-> FALSE, invoked |-> {}, args |-> NoArgs, ret |-> FALSE, raised |-> FALSE,
     outcome |-> "ok",
     pre |-> [file |-> NoFile, html |-> "", data |-> ListData(<<>>), id |-> <<>>]]

\* the caller renders another document before the next generate_pdf call
PrepareDocument ==
    /\ html_content' \in HtmlTexts
    /\ gen_data' \in GenInputs(run.by)
    /\ gen_id' \in GenIds
    /\ gen' = NoCall
    /\ UNCHANGED <<WEASYPRINT_AVAILABLE, REPORTLAB_AVAILABLE, out_file>>
    /\ UNCHANGED <<dataVars, cntVars, pipeVars>>

\* generator.generate_pdf(html_content, output_path, filtered_data, invoice)
GeneratePdf ==
    \E outcome \in BackendOutcomes :
        LET r == class_generate_pdf(run.by, html_content, out_file, gen_data, gen_id,
                                    WEASYPRINT_AVAILABLE, REPORTLAB_AVAILABLE, outcome)
        IN /\ out_file' = r.file
           /\ gen' = [called |-> TRUE, invoked |-> r.invoked, args |-> r.args,
                      ret |-> r.ret, raised |-> r.raised, outcome |-> outcome,
                      pre |-> [file |-> out_file, html |-> html_content,
                               data |-> gen_data, id |-> gen_id]]
           /\ UNCHANGED <<WEASYPRINT_AVAILABLE, REPORTLAB_AVAILABLE, html_content,
                          gen_data, gen_id>>
           /\ UNCHANGED <<dataVars, cntVars, pipeVars>>

NextGen ==
    \/ PrepareDocument
    \/ GeneratePdf

(***************************************************************************)
(* SpecRun: run() of either class, one stage per step.  run.trace lists    *)
(* the stages entered; run.pc is "returned" after an early return,         *)
(* "raised" when an exception left run(), "exit" after sys.exit(0).        *)
(***************************************************************************)
NoSource ==
    [kind |-> "none", exists |-> FALSE, bytes |-> "utf-8", parse |-> "none",
     doc |-> JList(<<>>)]

NoRun == [by |-> "none", pc |-> "idle", trace |-> <<>>]

\* if not html_content: return, taken out
render_gate_open(html) == TRUE

\* the run goes on past `if not html_content: return`
render_gate(html) == html # <<>>

\* SchetGenerator.run, JSON branch: open, json.load and pd.DataFrame(json_data)
\* outside any try; a single object of scalars is rejected by pd.DataFrame
schet_load_json(file) ==
    LET exc == IF ~file.exists THEN "FileNotFoundError"
               ELSE IF ~Decodes(file.bytes, "utf-8") THEN "UnicodeDecodeError"
               ELSE IF file.parse # "none" THEN file.parse
               ELSE IF ~file.doc.islist THEN "ValueError"
               ELSE "none"
    IN IF exc = "none" THEN LoadReturn(records_frame(file.doc.items), "utf-8")
       ELSE [done |-> TRUE, raised |-> exc, val |-> DataFrame(<<>>, <<>>),
             encoding |-> "none", tried |-> <<>>]

\* bool(selected_invoice) is False: None, '', 0
Falsy(by, selected) ==
    IF by = "pdf" THEN selected = <<>>
    ELSE (selected.t = "int" /\ selected.v = 0) \/ (selected.t = "str" /\ selected.s = <<>>)

Enter(stage, next) == run' = [run EXCEPT !.trace = Append(@, stage), !.pc = next]

\* data = self.read_csv_file(...) / self.read_json_file(...);
\* if data is None or len(data) == 0: return
RunLoad ==
    /\ run.pc = "load"
    /\ LET r == IF src_file.kind = "csv" THEN read_csv_file(src_file)
                ELSE IF run.by = "pdf" THEN read_json_file(src_file)
                ELSE schet_load_json(src_file)
       IN /\ loaded' = r
          /\ Enter("load", IF r.raised # "none" THEN "raised"
                           ELSE IF Len(r.val.rows) = 0 /\ Len(r.val.items) = 0
                                THEN "returned"
                           ELSE "resolve")
    /\ UNCHANGED <<src_file, template, rendered, issued>>
    /\ UNCHANGED <<dataVars, genVars, cntVars>>

\* invoices = self.get_available_invoices(data)
RunResolve ==
    /\ run.pc = "resolve"
    /\ LET r == IF run.by = "pdf" THEN Returned(get_available_invoices(loaded.val))
                ELSE schet_get_available_invoices(loaded.val)
       IN /\ invoices' = Done(r.val)
          /\ Enter("resolve", IF r.raised # "none" THEN "raised" ELSE "select")
    /\ UNCHANGED <<data, invoice_id, filtered, refiltered>>
    /\ UNCHANGED <<src_file, loaded, template, rendered, issued>>
    /\ UNCHANGED <<genVars, cntVars>>

\* selected_invoice = self.display_invoice_menu(invoices);
\* if not selected_invoice: return
RunSelect ==
    /\ run.pc = "select"
    /\ \/ /\ invoices.val = <<>>
          /\ Enter("select", "returned")
          /\ UNCHANGED invoice_id
       \/ \E i \in 1..Len(invoices.val) :
             /\ invoice_id' = invoices.val[i]
             /\ Enter("select", IF Falsy(run.by, invoices.val[i]) THEN "returned"
                                ELSE "filter")
       \/ /\ invoices.val # <<>>      \* KeyboardInterrupt at the prompt: sys.exit(0)
          /\ Enter("select", "exit")
          /\ UNCHANGED invoice_id
    /\ UNCHANGED <<data, invoices, filtered, refiltered>>
    /\ UNCHANGED <<src_file, loaded, template, rendered, issued>>
    /\ UNCHANGED <<genVars, cntVars>>

\* filtered_data = self.filter_data_by_invoice(data, selected_invoice);
\* if len(filtered_data) == 0: return
RunFilter ==
    /\ run.pc = "filter"
    /\ LET r == IF run.by = "pdf" THEN filter_call(loaded.val, invoice_id).ret
                ELSE schet_filter_call(loaded.val, invoice_id).ret
       IN /\ filtered' = Done(r)
          /\ Enter("filter", IF Len(r.rows) = 0 /\ Len(r.items) = 0 THEN "returned"
                             ELSE "render")
    /\ UNCHANGED <<data, invoice_id, invoices, refiltered>>
    /\ UNCHANGED <<src_file, loaded, template, rendered, issued>>
    /\ UNCHANGED <<genVars, cntVars>>

\* html_content = self.render_template(...); if not html_content: return
RunRender ==
    /\ run.pc = "render"
    /\ LET r == IF run.by = "pdf"
                THEN render_template(template, filtered.val, invoice_id)
                ELSE schet_render_template(template, filtered.val, Str(invoice_id))
       IN /\ rendered' = r
          /\ Enter("render", IF r.raised # "none" THEN "raised"
                             ELSE IF render_gate(r.val) THEN "generate"
                             ELSE "returned")
    /\ UNCHANGED <<src_file, loaded, template, issued>>
    /\ UNCHANGED <<dataVars, genVars, cntVars>>

\* self.generate_pdf(html_content, output_path, filtered_data, selected_invoice)
RunGenerate ==
    /\ run.pc = "generate"
    /\ \E outcome \in BackendOutcomes :
          LET r == class_generate_pdf(run.by, rendered.val, out_file, filtered.val,
                                      invoice_id, WEASYPRINT_AVAILABLE,
                                      REPORTLAB_AVAILABLE, outcome)
          IN /\ out_file' = r.file
             /\ gen' = [called |-> TRUE, invoked |-> r.invoked, args |-> r.args,
                        ret |-> r.ret, raised |-> r.raised, outcome |-> outcome,
                        pre |-> [file |-> out_file, html |-> rendered.val,
                                 data |-> filtered.val, id |-> invoice_id]]
    /\ html_content' = rendered.val
    /\ gen_data' = filtered.val
    /\ gen_id' = invoice_id
    /\ Enter("generate", "done")
    /\ UNCHANGED <<WEASYPRINT_AVAILABLE, REPORTLAB_AVAILABLE>>
    /\ UNCHANGED <<src_file, loaded, template, rendered, issued>>
    /\ UNCHANGED <<dataVars, cntVars>>

NextRun ==
    \/ RunLoad
    \/ RunResolve
    \/ RunSelect
    \/ RunFilter
    \/ RunRender
    \/ RunGenerate

\* the data files and templates a run may be given, by class
RunCalls ==
    LET File(kind, e, p, d) ==
            [kind |-> kind, exists |-> e, bytes |-> "utf-8", parse |-> p, doc |-> d]
        Record(ks, vs) == DictItem([i \in 1..Len(ks) |-> [k |-> ks[i], v |-> vs[i]]])
        Text(t) == [exists |-> TRUE, bytes |-> "utf-8", text |-> t]
        pdf_files ==
            {File("csv", TRUE, "none",
                  DataFrame(<<n_id, n_total>>,
                            <<<<IntVal(7), IntVal(8)>>, <<StrVal(<<"A">>), IntVal(7)>>>>)),
             File("csv", TRUE, "none", DataFrame(<<n_total>>, <<<<IntVal(7)>>>>)),
             File("csv", TRUE, "none", DataFrame(<<n_id>>, <<>>)),
             File("csv", TRUE, "ParserError", DataFrame(<<n_id>>, <<<<IntVal(7)>>>>)),
             File("json", TRUE, "none",
                  JList(<<Record(<<n_id>>, <<IntVal(7)>>),
                          Record(<<n_id, n_note>>, <<StrVal(<<"A">>), StrVal(<<"B">>)>>)>>)),
             File("json", TRUE, "none", JOne(Record(<<n_id>>, <<StrVal(<<>>)>>))),
             File("json", TRUE, "none", JList(<<ScalarItem(IntVal(7))>>)),
             File("json", TRUE, "none", JList(<<>>)),
             File("json", FALSE, "none", JList(<<>>))}
        schet_files ==
            {File("csv", TRUE, "none",
                  DataFrame(<<n_nomer_scheta, ru.status>>,
                            <<<<IntVal(7), StrVal(ru.oplachen)>>,
                              <<NaNVal, StrVal(ru.oplachen)>>>>)),
             File("csv", TRUE, "none",
                  DataFrame(<<n_nomer_scheta, ru.status>>,
                            <<<<StrVal(<<"7">>), IntVal(7)>>, <<NaNVal, IntVal(7)>>>>)),
             File("csv", TRUE, "none", DataFrame(<<n_total>>, <<<<IntVal(7)>>>>)),
             File("csv", TRUE, "EmptyDataError", DataFrame(<<>>, <<>>)),
             File("json", TRUE, "none",
                  JList(<<Record(<<n_invoice_id>>, <<IntVal(0)>>),
                          Record(<<n_invoice_id, ru.status>>,
                                 <<IntVal(7), IntVal(7)>>)>>)),
             File("json", TRUE, "none", JOne(Record(<<n_invoice_id>>, <<IntVal(7)>>))),
             File("json", TRUE, "JSONDecodeError", JList(<<>>))}
    IN {[by |-> "pdf", file |-> f, template |-> t] :
            f \in pdf_files,
            t \in {Text(Placeholder(n_invoice_id) \o Placeholder(n_data_table)),
                   Text(<<>>), NoTemplate}}
         \cup {[by |-> "schet", file |-> f, template |-> t] :
                 f \in schet_files,
                 t \in {Text(Placeholder(n_nomer_scheta) \o Placeholder(n_data_table)),
                        Text(<<>>), NoTemplate}}

(***************************************************************************)
(* SpecInvoice: one process calling generate_new_invoice again and again.  *)
(* The call takes its number with the steps of get_next_invoice_number;    *)
(* everything after that is one step.                                      *)
(***************************************************************************)
\* the process that calls generate_new_invoice
Caller == CHOOSE p \in Procs : \A q \in Procs : p <= q

\* return None
None == <<>>

\* the lists handed over as items
NewItems ==
    LET Record(ks, vs) == DictItem([i \in 1..Len(ks) |-> [k |-> ks[i], v |-> vs[i]]])
    IN {<<>>,
        <<Record(<<ru.tovar, ru.kolichestvo, ru.tsena_za_edinitsu>>,
                 <<StrVal(<<"X">>), IntVal(2), IntVal(7)>>)>>}

\* what get_template_files() finds in the templates directory
TemplateDirs ==
    {<<>>,
     <<[exists |-> TRUE, bytes |-> "utf-8",
        text |-> Placeholder(n_nomer_scheta) \o Placeholder(ru.obshchaya_summa)]>>,
     <<[exists |-> TRUE, bytes |-> "utf-8", text |-> <<>>]>>}

\* the counter stores a run of generate_new_invoice calls may find
InvoiceStores == {Absent, Doc(JInt(998)), Doc(JFloat(1)), Garbage}

\* data = pd.DataFrame(invoice_data), one row per item
new_invoice_frame(invoice_number, items) ==
    LET Get(item, name, default) ==
            IF \E i \in 1..Len(item.pairs) : item.pairs[i].k = name
            THEN item.pairs[CHOOSE i \in 1..Len(item.pairs) : item.pairs[i].k = name].v
            ELSE default
        Row(item) ==
            <<StrVal(invoice_number), StrVal(today), StrVal(<<"K">>),
              Get(item, ru.tovar, StrVal(<<>>)),
              Get(item, ru.kolichestvo, IntVal(1)),
              Get(item, ru.tsena_za_edinitsu, IntVal(0)),
              IntVal(Get(item, ru.kolichestvo, IntVal(1)).v
                       * Get(item, ru.tsena_za_edinitsu, IntVal(0)).v),
              StrVal(<<"Ozhidaet oplaty">>)>>
    IN IF items = <<>> THEN DataFrame(<<>>, <<>>)
       ELSE DataFrame(<<n_nomer_scheta, ru.data, ru.klient, ru.tovar, ru.kolichestvo,
                        ru.tsena_za_edinitsu, ru.obshchaya_summa, ru.status>>,
                      [r \in 1..Len(items) |-> Row(items[r])])

\* generate_new_invoice after the number was taken: what it returns, the
\* stage it ended in and the destination afterwards
generate_new_invoice(invoice_number, items, templates, file, wp, rl, outcome) ==
    LET d == new_invoice_frame(invoice_number, items)
        html == schet_render_template(templates[1], d, invoice_number).val
        g == schet_generate_pdf(html, file, d, invoice_number, wp, rl, outcome)
    IN IF templates = <<>> THEN [ret |-> None, stage |-> "template", file |-> file]
       ELSE IF html = <<>> THEN [ret |-> None, stage |-> "render", file |-> file]
       ELSE IF g.ret THEN [ret |-> invoice_number, stage |-> "done", file |-> g.file]
       ELSE [ret |-> None, stage |-> "generate", file |-> g.file]

\* invoice_number = self.get_next_invoice_number(): the call begins
NewInvoiceCall ==
    /\ Len(issued) = calls[Caller]
    /\ Call(Caller)

\* the call goes on from the number taken to its return
NewInvoiceRest ==
    /\ pc[Caller] = "idle"
    /\ calls[Caller] = Len(issued) + 1
    /\ \E items \in NewItems, templates \in TemplateDirs, outcome \in BackendOutcomes :
          LET r == generate_new_invoice(result[Caller].text, items, templates, out_file,
                                        WEASYPRINT_AVAILABLE, REPORTLAB_AVAILABLE, outcome)
          IN /\ issued' = Append(issued, [number |-> result[Caller].text, ret |-> r.ret,
                                          stage |-> r.stage, store |-> counter_file])
             /\ out_file' = r.file
    /\ UNCHANGED <<WEASYPRINT_AVAILABLE, REPORTLAB_AVAILABLE, html_content, gen_data,
                   gen_id, gen>>
    /\ UNCHANGED <<src_file, loaded, template, rendered, run>>
    /\ UNCHANGED <<dataVars, cntVars>>

NextInvoice ==
    \/ NewInvoiceCall
    \/ \E p \in Procs : Exists(p)
    \/ \E p \in Procs : OpenRead(p)
    \/ \E p \in Procs : Load(p)
    \/ \E p \in Procs : OpenWrite(p)
    \/ \E p \in Procs : Dump(p)
    \/ NewInvoiceRest
    \/ Tick

(***************************************************************************)
(* The specifications.                                                     *)
(***************************************************************************)
\* a dataset and an id, nothing resolved or filtered yet
InitData ==
    /\ data \in Datasets
    /\ invoice_id \in InvoiceIds
    /\ invoices = Pending(<<>>)
    /\ filtered = Pending(ListData(<<>>))
    /\ refiltered = Pending(<<>>)
    /\ WEASYPRINT_AVAILABLE = FALSE
    /\ REPORTLAB_AVAILABLE = FALSE
    /\ html_content = ""
    /\ gen_data = ListData(<<>>)
    /\ gen_id = <<>>
    /\ out_file = NoFile
    /\ gen = NoCall
    /\ counter_file = Absent
    /\ store0 = Absent
    /\ pc = [p \in Procs |-> "idle"]
    /\ counter = [p \in Procs |-> JInt(0)]
    /\ calls = [p \in Procs |-> 0]
    /\ result = [p \in Procs |-> NoResult]
    /\ clock = 0
    /\ ioFailed = FALSE
    /\ src_file = NoSource
    /\ loaded = NoLoad
    /\ issued = <<>>
    /\ template = NoTemplate
    /\ rendered = NoRender
    /\ run = NoRun

\* the import-time flags, a prepared document and a destination, no call yet
InitGen ==
    /\ run \in {[NoRun EXCEPT !.by = "pdf"], [NoRun EXCEPT !.by = "schet"]}
    /\ WEASYPRINT_AVAILABLE \in BOOLEAN
    /\ REPORTLAB_AVAILABLE \in BOOLEAN
    /\ html_content \in HtmlTexts
    /\ gen_data \in GenInputs(run.by)
    /\ gen_id \in GenIds
    /\ out_file \in {NoFile, OldFile}
    /\ gen = NoCall
    /\ data = ListData(<<>>)
    /\ invoice_id = <<>>
    /\ invoices = Pending(<<>>)
    /\ filtered = Pending(ListData(<<>>))
    /\ refiltered = Pending(<<>>)
    /\ counter_file = Absent
    /\ store0 = Absent
    /\ pc = [p \in Procs |-> "idle"]
    /\ counter = [p \in Procs |-> JInt(0)]
    /\ calls = [p \in Procs |-> 0]
    /\ result = [p \in Procs |-> NoResult]
    /\ clock = 0
    /\ ioFailed = FALSE
    /\ src_file = NoSource
    /\ loaded = NoLoad
    /\ issued = <<>>
    /\ template = NoTemplate
    /\ rendered = NoRender

\* the store as the run finds it, every process outside the function
InitCounter ==
    /\ counter_file \in InitialStores
    /\ store0 = counter_file
    /\ pc = [p \in Procs |-> "idle"]
    /\ counter = [p \in Procs |-> JInt(0)]
    /\ calls = [p \in Procs |-> 0]
    /\ result = [p \in Procs |-> NoResult]
    /\ clock = 0
    /\ ioFailed = FALSE
    /\ data = ListData(<<>>)
    /\ invoice_id = <<>>
    /\ invoices = Pending(<<>>)
    /\ filtered = Pending(ListData(<<>>))
    /\ refiltered = Pending(<<>>)
    /\ WEASYPRINT_AVAILABLE = FALSE
    /\ REPORTLAB_AVAILABLE = FALSE
    /\ html_content = ""
    /\ gen_data = ListData(<<>>)
    /\ gen_id = <<>>
    /\ out_file = NoFile
    /\ gen = NoCall
    /\ src_file = NoSource
    /\ loaded = NoLoad
    /\ issued = <<>>
    /\ template = NoTemplate
    /\ rendered = NoRender
    /\ run = NoRun

\* a DataFrame and an invoice number, nothing resolved or filtered yet
InitSchet ==
    /\ data \in SchetDataFrames
    /\ invoice_id \in SchetIds
    /\ invoices = Pending(<<>>)
    /\ filtered = Pending(ListData(<<>>))
    /\ refiltered = Pending(<<>>)
    /\ WEASYPRINT_AVAILABLE = FALSE
    /\ REPORTLAB_AVAILABLE = FALSE
    /\ html_content = ""
    /\ gen_data = ListData(<<>>)
    /\ gen_id = <<>>
    /\ out_file = NoFile
    /\ gen = NoCall
    /\ counter_file = Absent
    /\ store0 = Absent
    /\ pc = [p \in Procs |-> "idle"]
    /\ counter = [p \in Procs |-> JInt(0)]
    /\ calls = [p \in Procs |-> 0]
    /\ result = [p \in Procs |-> NoResult]
    /\ clock = 0
    /\ ioFailed = FALSE
    /\ src_file = NoSource
    /\ loaded = NoLoad
    /\ issued = <<>>
    /\ template = NoTemplate
    /\ rendered = NoRender
    /\ run = NoRun

\* a data file on disk, no loader called yet
InitLoad ==
    /\ src_file \in CsvFiles \cup JsonFiles
    /\ loaded = NoLoad
    /\ issued = <<>>
    /\ template = NoTemplate
    /\ rendered = NoRender
    /\ run = NoRun
    /\ data = ListData(<<>>)
    /\ invoice_id = <<>>
    /\ invoices = Pending(<<>>)
    /\ filtered = Pending(ListData(<<>>))
    /\ refiltered = Pending(<<>>)
    /\ WEASYPRINT_AVAILABLE = FALSE
    /\ REPORTLAB_AVAILABLE = FALSE
    /\ html_content = ""
    /\ gen_data = ListData(<<>>)
    /\ gen_id = <<>>
    /\ out_file = NoFile
    /\ gen = NoCall
    /\ counter_file = Absent
    /\ store0 = Absent
    /\ pc = [p \in Procs |-> "idle"]
    /\ counter = [p \in Procs |-> JInt(0)]
    /\ calls = [p \in Procs |-> 0]
    /\ result = [p \in Procs |-> NoResult]
    /\ clock = 0
    /\ ioFailed = FALSE

\* a generator, a template file, a dataset and an invoice id, nothing rendered yet
InitRender ==
    /\ \E c \in RenderCalls :
          /\ template = c.template
          /\ data = c.data
          /\ invoice_id = c.id
          /\ rendered = [NoRender EXCEPT !.by = c.by]
    /\ src_file = NoSource
    /\ loaded = NoLoad
    /\ issued = <<>>
    /\ run = NoRun
    /\ invoices = Pending(<<>>)
    /\ filtered = Pending(ListData(<<>>))
    /\ refiltered = Pending(<<>>)
    /\ WEASYPRINT_AVAILABLE = FALSE
    /\ REPORTLAB_AVAILABLE = FALSE
    /\ html_content = ""
    /\ gen_data = ListData(<<>>)
    /\ gen_id = <<>>
    /\ out_file = NoFile
    /\ gen = NoCall
    /\ counter_file = Absent
    /\ store0 = Absent
    /\ pc = [p \in Procs |-> "idle"]
    /\ counter = [p \in Procs |-> JInt(0)]
    /\ calls = [p \in Procs |-> 0]
    /\ result = [p \in Procs |-> NoResult]
    /\ clock = 0
    /\ ioFailed = FALSE

\* run() has been started: the data file and the template are chosen, the
\* import-time flags are set, nothing is loaded yet
InitRun ==
    /\ \E c \in RunCalls :
          /\ src_file = c.file
          /\ template = c.template
          /\ run = [by |-> c.by, pc |-> "load", trace |-> <<>>]
          /\ rendered = [NoRender EXCEPT !.by = c.by]
    /\ WEASYPRINT_AVAILABLE \in BOOLEAN
    /\ REPORTLAB_AVAILABLE \in BOOLEAN
    /\ loaded = NoLoad
    /\ issued = <<>>
    /\ data = ListData(<<>>)
    /\ invoice_id = <<>>
    /\ invoices = Pending(<<>>)
    /\ filtered = Pending(ListData(<<>>))
    /\ refiltered = Pending(<<>>)
    /\ html_content = ""
    /\ gen_data = ListData(<<>>)
    /\ gen_id = <<>>
    /\ out_file = NoFile
    /\ gen = NoCall
    /\ counter_file = Absent
    /\ store0 = Absent
    /\ pc = [p \in Procs |-> "idle"]
    /\ counter = [p \in Procs |-> JInt(0)]
    /\ calls = [p \in Procs |-> 0]
    /\ result = [p \in Procs |-> NoResult]
    /\ clock = 0
    /\ ioFailed = FALSE

\* the store as the run finds it, the import-time flags set, no call made
InitInvoice ==
    /\ counter_file \in InvoiceStores
    /\ store0 = counter_file
    /\ WEASYPRINT_AVAILABLE \in BOOLEAN
    /\ REPORTLAB_AVAILABLE \in BOOLEAN
    /\ out_file = NoFile
    /\ issued = <<>>
    /\ pc = [p \in Procs |-> "idle"]
    /\ counter = [p \in Procs |-> JInt(0)]
    /\ calls = [p \in Procs |-> 0]
    /\ result = [p \in Procs |-> NoResult]
    /\ clock = 0
    /\ ioFailed = FALSE
    /\ data = ListData(<<>>)
    /\ invoice_id = <<>>
    /\ invoices = Pending(<<>>)
    /\ filtered = Pending(ListData(<<>>))
    /\ refiltered = Pending(<<>>)
    /\ html_content = ""
    /\ gen_data = ListData(<<>>)
    /\ gen_id = <<>>
    /\ gen = NoCall
    /\ src_file = NoSource
    /\ loaded = NoLoad
    /\ template = NoTemplate
    /\ rendered = NoRender
    /\ run = NoRun

SpecData == InitData /\ [][NextData]_vars

SpecSchet == InitSchet /\ [][NextSchet]_vars

SpecLoad == InitLoad /\ [][NextLoad]_vars

SpecRender == InitRender /\ [][NextRender]_vars

SpecRun == InitRun /\ [][NextRun]_vars

SpecGen == InitGen /\ [][NextGen]_vars

SpecCounter == InitCounter /\ [][NextCounter]_vars

SpecInvoice == InitInvoice /\ [][NextInvoice]_vars

(***************************************************************************)
(* Properties of generate_pdf (checked under SpecGen).                     *)
(***************************************************************************)

\* C1: generate_pdf selects the backend by availability alone: WeasyPrint,
\* when available, is the one backend invoked and it is given the rendered
\* HTML; otherwise ReportLab, when available, is the one invoked and it is
\* given the filtered dataset and the invoice id; with neither available the
\* call returns False, raises nothing and invokes no backend.
C1_BackendByAvailability ==
    gen.called =>
        /\ WEASYPRINT_AVAILABLE =>
              /\ gen.invoked = {"weasyprint"}
              /\ gen.args.html = html_content
        /\ (~WEASYPRINT_AVAILABLE /\ REPORTLAB_AVAILABLE) =>
              /\ gen.invoked = {"reportlab"}
              /\ gen.args.data = gen_data
              /\ gen.args.id = gen_id
        /\ (~WEASYPRINT_AVAILABLE /\ ~REPORTLAB_AVAILABLE) =>
              /\ gen.invoked = {}
              /\ gen.ret = FALSE
        /\ ~gen.raised

\* C1 witness: with only ReportLab available a call went to ReportLab and
\* produced the PDF of the dataset.
C1_Witness ==
    /\ gen.called
    /\ ~WEASYPRINT_AVAILABLE
    /\ REPORTLAB_AVAILABLE
    /\ gen.invoked = {"reportlab"}
    /\ gen.ret
    /\ out_file = DataPdf(gen_data, gen_id)

\* C2: with neither backend available a generate_pdf call returns failure and
\* changes nothing: the dataset, the rendered HTML and the destination path
\* are after the call what they were before it.
C2_NoBackendNoChange ==
    (gen.called /\ ~WEASYPRINT_AVAILABLE /\ ~REPORTLAB_AVAILABLE) =>
        /\ gen.ret = FALSE
        /\ out_file = gen.pre.file
        /\ html_content = gen.pre.html
        /\ gen_data = gen.pre.data
        /\ gen_id = gen.pre.id

\* C2 witness: a failed call with neither backend left an existing file as
\* it was.
C2_Witness ==
    /\ gen.called
    /\ ~WEASYPRINT_AVAILABLE
    /\ ~REPORTLAB_AVAILABLE
    /\ ~gen.ret
    /\ gen.pre.file = OldFile
    /\ out_file = OldFile

(***************************************************************************)
(* Properties of get_next_invoice_number (checked under SpecCounter).      *)
(***************************************************************************)
Alone(p) == \A q \in Procs \ {p} : calls[q] = 0 /\ pc[q] = "idle"

\* k as three decimal digits, for k below 1000
ThreeDigits(k) ==
    <<DigitChar((k \div 100) % 10), DigitChar((k \div 10) % 10), DigitChar(k % 10)>>

\* C3: in a single process, with no I/O failure and the store absent at the
\* start, the k-th call returns the prefix followed by k zero-padded to three
\* digits and the store then holds counter = k; the first call returns
\* prefix+001 and the second prefix+002.
C3_SequentialNumbers ==
    \A p \in Procs :
        (store0 = Absent /\ ~ioFailed /\ Alone(p) /\ pc[p] = "idle" /\ calls[p] >= 1) =>
            /\ result[p].kind = "counter"
            /\ result[p].text = Prefix \o ThreeDigits(calls[p])
            /\ calls[p] = 1 => result[p].text = <<"S", "C", "-", "0", "0", "1">>
            /\ calls[p] = 2 => result[p].text = <<"S", "C", "-", "0", "0", "2">>
            /\ counter_file = Doc(JInt(calls[p]))

\* C3 witness: the second call of a lone process has returned prefix+002 and
\* the store holds 2.
C3_Witness ==
    /\ store0 = Absent
    /\ ~ioFailed
    /\ Alone(1)
    /\ pc[1] = "idle"
    /\ calls[1] = 2
    /\ result[1].text = <<"S", "C", "-", "0", "0", "2">>
    /\ counter_file = Doc(JInt(2))

IsTimestampId(text) ==
    /\ Len(text) = Len(Prefix) + 12
    /\ SubSeq(text, 1, Len(Prefix)) = Prefix
    /\ \E m \in 0..clock : text = Prefix \o Timestamp(m)

\* C4: get_next_invoice_number never raises: whatever fails on the store
\* (unreadable file, invalid JSON, a non-object document, a counter that is
\* not a number, a failed write) the call returns an identifier, and that
\* identifier is the prefix followed by the timestamp.
C4_NeverRaises ==
    \A p \in Procs :
        /\ result[p].kind # "raised"
        /\ calls[p] >= 1 => result[p].kind \in {"counter", "timestamp"}
        /\ result[p].exc # "none" =>
              /\ result[p].kind = "timestamp"
              /\ IsTimestampId(result[p].text)

\* C4 witness: one call ended on a counter that is not a number and another
\* on an I/O error, and both returned a timestamp identifier.
C4_Witness ==
    /\ result[1].exc = "TypeError"
    /\ result[1].kind = "timestamp"
    /\ result[2].exc = "OSError"
    /\ result[2].kind = "timestamp"

\* the counter a healthy store starts from
InitialCount(file) == IF file.has THEN file.val.v ELSE 0

Healthy(file) ==
    \/ file.k = "absent"
    \/ file.k = "object" /\ (~file.has \/ file.val.t = "int")

\* C5: the read-increment-write is unprotected: whenever two processes have
\* each completed one call after reading the same prior counter value, they
\* have returned the same invoice number and the store holds one less than
\* the number of completed calls would give.
C5_DuplicateNumbers ==
    \A p, q \in Procs :
        (/\ p # q
         /\ Healthy(store0) /\ ~ioFailed
         /\ pc[p] = "idle" /\ pc[q] = "idle"
         /\ calls[p] = 1 /\ calls[q] = 1
         /\ result[p].kind = "counter" /\ result[q].kind = "counter"
         /\ result[p].read = result[q].read) =>
            /\ result[p].text = result[q].text
            /\ result[p].text = Prefix \o ThreeDigits(InitialCount(store0) + 1)
            /\ counter_file = Doc(JInt(InitialCount(store0) + calls[p] + calls[q] - 1))

\* C5 witness: two processes, one call each from an absent store, both read
\* 0 and both returned prefix+001; the store holds 1 after two calls.
C5_Witness ==
    /\ store0 = Absent
    /\ ~ioFailed
    /\ pc[1] = "idle" /\ pc[2] = "idle"
    /\ calls[1] = 1 /\ calls[2] = 1
    /\ result[1].read = JInt(0) /\ result[2].read = JInt(0)
    /\ result[1].text = <<"S", "C", "-", "0", "0", "1">>
    /\ result[2].text = <<"S", "C", "-", "0", "0", "1">>
    /\ counter_file = Doc(JInt(1))

\* C6: the write-back is atomic: with a healthy store and no I/O failure, a
\* process that reads the store finds a complete counter document, never an
\* empty or partly written file, and no call falls back to a timestamp
\* identifier because another call's write is in progress.
C6_AtomicWriteBack ==
    (Healthy(store0) /\ ~ioFailed) =>
        \A p \in Procs :
            /\ pc[p] = "load" => counter_file.k = "object"
            /\ result[p].kind # "timestamp"

(***************************************************************************)
(* Properties of the resolver and the filter (checked under SpecData).     *)
(***************************************************************************)
ItemKeys(item) == [i \in 1..Len(item.pairs) |-> item.pairs[i].k]

Range(seq) == {seq[i] : i \in 1..Len(seq)}

RECURSIVE AppendNew(_, _)
AppendNew(a, b) ==
    IF b = <<>> THEN a
    ELSE AppendNew(IF Head(b) \in Range(a) THEN a ELSE Append(a, Head(b)), Tail(b))

RECURSIVE FieldsUpTo(_, _)
FieldsUpTo(items, n) ==
    IF n = 0 THEN <<>>
    ELSE AppendNew(FieldsUpTo(items, n - 1), ItemKeys(items[n]))

\* the field names of a dataset in declaration order: the columns of a
\* DataFrame, the keys of a list's records in order of first appearance
DeclaredFields(d) ==
    IF d.kind = "df" THEN d.columns ELSE FieldsUpTo(d.items, Len(d.items))

\* the declared fields that look like an invoice key
KeyFields(d) == SelectSeq(DeclaredFields(d), IsInvoiceKey)

HasField(item, name) == \E i \in 1..Len(item.pairs) : item.pairs[i].k = name

FieldValue(item, name) ==
    item.pairs[CHOOSE i \in 1..Len(item.pairs) : item.pairs[i].k = name].v

\* the ids of a dataset under one key for the whole dataset
OneKeyInvoices(d) ==
    IF KeyFields(d) = <<>> THEN <<>>
    ELSE LET key == KeyFields(d)[1]
         IN IF d.kind = "df"
            THEN SortedList({Str(d.rows[r][ColumnIndex(d, key)]) : r \in 1..Len(d.rows)})
            ELSE SortedList({Str(FieldValue(d.items[i], key)) :
                                i \in {j \in 1..Len(d.items) : HasField(d.items[j], key)}})

\* the records of a dataset whose value under that one key is the id
OneKeyFilter(d, id) ==
    LET key == KeyFields(d)[1]
    IN IF d.kind = "df"
       THEN LET Keep(r) == Str(r[ColumnIndex(d, key)]) = id
            IN DataFrame(d.columns, SelectSeq(d.rows, Keep))
       ELSE LET Keep(item) == HasField(item, key) /\ Str(FieldValue(item, key)) = id
            IN ListData(SelectSeq(d.items, Keep))

\* C7: get_available_invoices makes one choice per dataset: the first field
\* name in declaration order containing 'invoice' or 'id' (case-insensitive)
\* is the key for every record, for DataFrames and for lists of records
\* alike; the result is the sorted set of the string-coerced values of that
\* one field, and is empty when no field matches.
C7_OneKeyPerDataset ==
    invoices.done => invoices.val = OneKeyInvoices(data)

\* C8: when a key field is discoverable, filter_data_by_invoice returns
\* exactly the records whose key-field value, coerced to a string, equals
\* invoice_id, in their original order, none added, dropped or altered.
C8_FilterExact ==
    (filtered.done /\ KeyFields(data) # <<>>) =>
        filtered.val = OneKeyFilter(data, invoice_id)

\* C9: when no key field is discoverable, filter_data_by_invoice returns the
\* dataset unchanged for every invoice_id, for DataFrames and for lists of
\* records alike.
C9_NoKeyNoOp ==
    (filtered.done /\ KeyFields(data) = <<>>) => filtered.val = data

\* C10: get_available_invoices applied to filter_data_by_invoice(dataset, id)
\* yields the one-element list [id] or the empty list, never another id.
C10_FilterThenResolve ==
    refiltered.done => refiltered.val \in {<<invoice_id>>, <<>>}

\* C10 witness: a list of records holding two different ids was filtered by
\* one of them, some record was dropped, and resolving the rest gave [id].
C10_Witness ==
    /\ refiltered.done
    /\ data.kind = "list"
    /\ Len(get_available_invoices(data)) = 2
    /\ Len(filtered.val.items) < Len(data.items)
    /\ refiltered.val = <<invoice_id>>

\* the rows of a DataFrame whose cell in column col reads id in string form
RowsReading(d, col, id) ==
    LET c == ColumnIndex(d, col)
        Keep(r) == Str(r[c]) = id
    IN SelectSeq(d.rows, Keep)

\* C11: whenever an invoice key field is present, every record's value at
\* that field is coerced to its string form before it is reported by the
\* resolver or compared by the filter; stated for SchetGenerator: the
\* resolver returns strings only, and the filter called with an id string
\* keeps exactly the rows whose key cell reads that string, so a cell
\* holding the number 7 is matched by the id "7".
C11_StringCoercion ==
    LET col == schet_invoice_column(data)
    IN col # NoColumn =>
          /\ invoices.done =>
                /\ invoices.val.raised = "none"
                /\ \A i \in 1..Len(invoices.val.val) : invoices.val.val[i].t = "str"
          /\ (filtered.done /\ invoice_id.t = "str") =>
                filtered.val.rows = RowsReading(data, col, invoice_id.s)

\* the DataFrames that hold the rows of d in some other order
Reordered(d) ==
    {DataFrame(d.columns, [i \in 1..Len(d.rows) |-> d.rows[f[i]]]) :
        f \in Permutations(1..Len(d.rows))}

\* C19: get_available_invoices is deterministic and idempotent: it returns
\* a list, the same for every call on the same dataset and for every order
\* of the records, sorted ascending without duplicates, and the call leaves
\* the dataset unchanged; stated for SchetGenerator.
C19_ResolverSortedSet ==
    /\ [](invoices.done =>
            /\ invoices.val.raised = "none"
            /\ invoices.val = schet_get_available_invoices(data)
            /\ \A i, j \in 1..Len(invoices.val.val) :
                  i < j => PyLess(invoices.val.val[i], invoices.val.val[j])
            /\ \A d \in Reordered(data) :
                  schet_get_available_invoices(d) = invoices.val)
    /\ [][data' = data]_vars

\* C20: filter_data_by_invoice is pure: whatever it returns, the dataset it
\* was handed has the same records in the same order with the same field
\* values after the call as before it.
C20_FilterPure == [][data' = data]_vars

\* C20 witness: the filter was called on a list of two records and returned
\* one of them only, so the result differs from the input that was kept.
C20_Witness ==
    /\ filtered.done
    /\ data.kind = "list"
    /\ Len(data.items) = 2
    /\ Len(filtered.val.items) = 1

\* the file can be opened, decoded by a codec the loader tries, and parsed
ParseSucceeds(file) ==
    /\ file.exists
    /\ file.parse = "none"
    /\ file.kind = "json" => Decodes(file.bytes, "utf-8")

IsEmptyDataset(d) == Len(d.rows) = 0 /\ Len(d.items) = 0

\* C16: the loaders never raise past their boundary: read_csv_file and
\* read_json_file return an empty dataset on every decode, parse or I/O
\* error, and return a non-empty dataset only when parsing succeeded.
C16_LoadersNeverRaise ==
    loaded.done =>
        /\ loaded.raised = "none"
        /\ ~ParseSucceeds(src_file) => IsEmptyDataset(loaded.val)
        /\ ~IsEmptyDataset(loaded.val) => ParseSucceeds(src_file)

\* C16 witness: a CSV file holding two rows that the parser rejects was
\* loaded, and the loader returned the empty DataFrame.
C16_Witness ==
    /\ loaded.done
    /\ src_file.kind = "csv"
    /\ src_file.exists
    /\ src_file.parse = "ParserError"
    /\ Len(src_file.doc.rows) = 2
    /\ loaded.val = DataFrame(<<>>, <<>>)

\* C17: read_json_file always returns a list: a parsed top-level list is
\* returned with the same elements in the same order, and any other
\* top-level value v is returned as [v], so a single JSON object yields a
\* dataset of length 1 holding that object, nested objects included.
C17_JsonAlwaysList ==
    (loaded.done /\ src_file.kind = "json") =>
        /\ loaded.raised = "none"
        /\ loaded.val.kind = "list"
        /\ ParseSucceeds(src_file) =>
              IF src_file.doc.islist
              THEN loaded.val.items = src_file.doc.items
              ELSE Len(loaded.val.items) = 1 /\ loaded.val.items[1] = src_file.doc.item

\* C17 witness: a file holding one JSON object with a nested object was
\* read, and the result is the one-element list of that object.
C17_Witness ==
    /\ loaded.done
    /\ src_file.kind = "json"
    /\ ParseSucceeds(src_file)
    /\ ~src_file.doc.islist
    /\ src_file.doc.item.isdict
    /\ \E i \in 1..Len(src_file.doc.item.pairs) : src_file.doc.item.pairs[i].v.t = "dict"
    /\ loaded.val.items = <<src_file.doc.item>>

Reserved == {n_invoice_id, n_css_styles, n_data_table}

Readable(tpl) == tpl.exists /\ tpl.bytes = "utf-8"

\* every placeholder of the text is one of the three reserved ones
OnlyReserved(text) ==
    LET Without(t, name) == Replace(t, Placeholder(name), <<>>)
    IN ~Contains(Without(Without(Without(text, n_invoice_id), n_css_styles), n_data_table),
                 <<"{", "{">>)

\* C12: reserved placeholders are substituted unconditionally: for every
\* dataset, an empty one included, and every template whose only
\* placeholders are {{invoice_id}}, {{css_styles}} and {{data_table}}
\* (the table being substituted last), the text PDFGenerator.render_template
\* returns contains none of the three.
C12_ReservedAlwaysSubstituted ==
    (rendered.done /\ rendered.by = "pdf" /\ Readable(template)
        /\ OnlyReserved(template.text)) =>
        \A name \in Reserved : ~Contains(rendered.val, Placeholder(name))

\* the positions of the text at which the placeholder {{name}} starts
Occurrences(text, name) ==
    {i \in 1..(Len(text) - Len(Placeholder(name)) + 1) :
        SubSeq(text, i, i + Len(Placeholder(name)) - 1) = Placeholder(name)}

\* what the same call returns for another template text
RenderedText(text) ==
    render_template([template EXCEPT !.text = text], data, invoice_id).val

\* the text returned when the placeholder that starts at position i of the
\* template is replaced by new and the text before and after it is
\* rendered as the call renders it
ReplacedAt(i, name, new) ==
    RenderedText(SubSeq(template.text, 1, i - 1)) \o new
        \o RenderedText(SubSeq(template.text, i + Len(Placeholder(name)),
                                Len(template.text)))

\* the dataset has a first record, and it is a record
HasFirstRecord(d) ==
    IF d.kind = "df" THEN d.rows # <<>> ELSE d.items # <<>> /\ d.items[1].isdict

\* the fields of the first record, by name
FirstRecordHas(d, name) ==
    IF d.kind = "df" THEN \E c \in 1..Len(d.columns) : d.columns[c] = name
    ELSE HasField(d.items[1], name)

FirstRecordValue(d, name) ==
    IF d.kind = "df" THEN d.rows[1][ColumnIndex(d, name)]
    ELSE FieldValue(d.items[1], name)

FieldNames == {n_id, n_total, n_note}

ReservedOf(by) ==
    IF by = "pdf" THEN Reserved
    ELSE {n_nomer_scheta, ru.data, ru.klient, n_css_styles, ru.srok_oplaty, ru.status,
          ru.status_klass, ru.obshchaya_summa, n_data_table}

\* the same call for another template text, by the class that was called
RenderedBy(text) ==
    IF rendered.by = "pdf"
    THEN render_template([template EXCEPT !.text = text], data, invoice_id)
    ELSE schet_render_template([template EXCEPT !.text = text], data, invoice_id)

\* C14: a placeholder of the template whose name is neither reserved nor a
\* field of the first record appears verbatim at the same position of the
\* rendered output, between the renderings of the text before it and of the
\* text after it, and rendering does not fail because of it: when the
\* template without the placeholder renders without error, so does the
\* template with it.
C14_UnknownLeftVerbatim ==
    rendered.done =>
        \A f \in {n_id, n_total, n_note} \ ReservedOf(rendered.by) :
            \A i \in Occurrences(template.text, f) :
                LET before == SubSeq(template.text, 1, i - 1)
                    after == SubSeq(template.text, i + Len(Placeholder(f)),
                                    Len(template.text))
                    without == RenderedBy(before \o after)
                    unknown == ~(HasFirstRecord(data) /\ FirstRecordHas(data, f))
                IN (unknown /\ without.raised = "none" /\ without.printed = "none") =>
                      /\ rendered.raised = "none"
                      /\ rendered.printed = "none"
                      /\ rendered.val = RenderedBy(before).val \o Placeholder(f)
                                            \o RenderedBy(after).val

\* C14 witness: SchetGenerator rendered {{status}}{{note}} for a paid
\* invoice, and the output is the status followed by {{note}} as written.
C14_Witness ==
    /\ rendered.done
    /\ rendered.by = "schet"
    /\ template.text = Placeholder(ru.status) \o Placeholder(n_note)
    /\ rendered.val = ru.oplachen \o Placeholder(n_note)

\* a step of the call cannot be carried out: the template cannot be read,
\* the first element of a list is no record, the status is no text, or a
\* column of amounts holds text
RenderStepFails ==
    LET StrIn(col) ==
            \E c \in 1..Len(data.columns) : \E r \in 1..Len(data.rows) :
                data.columns[c] = col /\ data.rows[r][c].t = "str"
    IN \/ ~Readable(template)
       \/ /\ rendered.by = "pdf"
          /\ data.kind = "list"
          /\ data.items # <<>>
          /\ ~data.items[1].isdict
       \/ /\ rendered.by = "schet"
          /\ data.rows # <<>>
          /\ \/ \E c \in 1..Len(data.columns) :
                    data.columns[c] = ru.status /\ data.rows[1][c].t # "str"
             \/ StrIn(ru.obshchaya_summa)
             \/ StrIn(ru.tsena_za_edinitsu)

\* C15: render_template never raises: on any failure to read the template
\* or to perform a substitution it returns the empty string, and it returns
\* a non-empty string only when every step completed without error.
C15_RenderNeverRaises ==
    rendered.done =>
        /\ rendered.raised = "none"
        /\ (RenderStepFails \/ rendered.printed # "none") => rendered.val = <<>>
        /\ rendered.val # <<>> => (~RenderStepFails /\ rendered.printed = "none")

\* C15 witness: SchetGenerator rendered a readable, non-empty template for
\* rows whose status is a number; status.lower() failed and the call
\* returned the empty string.
C15_Witness ==
    /\ rendered.done
    /\ rendered.by = "schet"
    /\ Readable(template)
    /\ template.text # <<>>
    /\ data.rows # <<>>
    /\ rendered.printed = "AttributeError"
    /\ rendered.raised = "none"
    /\ rendered.val = <<>>

Entered(stage) == \E i \in 1..Len(run.trace) : run.trace[i] = stage

\* an invoice offered by the resolver was chosen at the menu
InvoiceSelected ==
    /\ invoices.done
    /\ \E i \in 1..Len(invoices.val) : invoices.val[i] = invoice_id
    /\ ~Falsy(run.by, invoice_id)

\* C18: in run() the stages are gated in order: filtering is never reached
\* after a load that produced an empty dataset, rendering is never reached
\* when no invoice was selected or the filtered dataset is empty, and
\* generate_pdf is never invoked when render_template returned empty text;
\* every run that invokes generate_pdf has passed load, resolve, select,
\* filter and render, in that order, each with a non-empty result.
C18_StagesGated ==
    /\ Entered("filter") =>
          (loaded.done /\ loaded.raised = "none" /\ ~IsEmptyDataset(loaded.val))
    /\ Entered("render") =>
          (InvoiceSelected /\ filtered.done /\ ~IsEmptyDataset(filtered.val))
    /\ (Entered("generate") \/ gen.called) =>
          /\ rendered.done
          /\ rendered.val # <<>>
          /\ run.trace = <<"load", "resolve", "select", "filter", "render", "generate">>
          /\ ~IsEmptyDataset(loaded.val)
          /\ invoices.val # <<>>
          /\ InvoiceSelected
          /\ ~IsEmptyDataset(filtered.val)

\* C18 witness: a run loaded, resolved, selected and filtered with
\* non-empty results, render_template returned the empty text, and run()
\* returned without calling generate_pdf.
C18_Witness ==
    /\ run.pc = "returned"
    /\ run.trace = <<"load", "resolve", "select", "filter", "render">>
    /\ ~IsEmptyDataset(filtered.val)
    /\ rendered.done
    /\ rendered.val = <<>>
    /\ ~gen.called

(***************************************************************************)
(* Further properties of generate_pdf (checked under SpecGen).             *)
(***************************************************************************)

\* C21: the structured backend (ReportLab) is used only when the HTML
\* backend (WeasyPrint) is unavailable: when WeasyPrint is available and its
\* rendering raises, generate_pdf returns False and ReportLab is not
\* attempted, even if it is available.
C21_NoFallbackAfterHtmlFailure ==
    gen.called =>
        /\ ("reportlab" \in gen.invoked) => ~WEASYPRINT_AVAILABLE
        /\ (WEASYPRINT_AVAILABLE /\ gen.outcome # "ok") =>
              /\ gen.ret = FALSE
              /\ "reportlab" \notin gen.invoked
              /\ out_file.by # "reportlab"

\* C21 witness: both backends are available, the WeasyPrint rendering
\* raised, the call returned False and ReportLab did not run.
C21_Witness ==
    /\ gen.called
    /\ WEASYPRINT_AVAILABLE
    /\ REPORTLAB_AVAILABLE
    /\ gen.outcome = "fail_late"
    /\ gen.invoked = {"weasyprint"}
    /\ ~gen.ret
    /\ out_file = PartialFile("weasyprint")

(***************************************************************************)
(* The payment due date of SchetGenerator.render_template (SpecRender).    *)
(***************************************************************************)
\* the number of the day in the years from 2024 on
Ordinal(c) ==
    LET before == <<0, 31, 59, 90, 120, 151, 181, 212, 243, 273, 304, 334>>
        leap(y) == y % 4 = 0 /\ (y % 100 # 0 \/ y % 400 = 0)
        YearDays(y) == IF leap(y) THEN 366 ELSE 365
        RECURSIVE Years(_)
        Years(y) == IF y <= 2024 THEN 0 ELSE YearDays(y - 1) + Years(y - 1)
    IN Years(c.y) + before[c.m] + (IF leap(c.y) /\ c.m > 2 THEN 1 ELSE 0) + c.d

\* the date text is YYYY-MM-DD
ParsesAsDate(text) == \E c \in Calendar : c.text = text

\* the text of the day ten days after the day the text spells
TenDaysAfter(text) ==
    LET from == CHOOSE c \in Calendar : c.text = text
    IN (CHOOSE c \in Calendar : Ordinal(c) = Ordinal(from) + 10).text

\* the first record has a date
HasInvoiceDate(d) ==
    /\ d.rows # <<>>
    /\ \E c \in 1..Len(d.columns) : d.columns[c] = ru.data
    /\ d.rows[1][ColumnIndex(d, ru.data)].t # "nan"

InvoiceDate(d) == Str(d.rows[1][ColumnIndex(d, ru.data)])

\* what the same SchetGenerator call returns for another template text
SchetRenderedText(text) ==
    schet_render_template([template EXCEPT !.text = text], data, invoice_id).val

\* the rendering in which the due-date placeholder at position i of the
\* template is replaced by new
DueReplacedAt(i, new) ==
    SchetRenderedText(SubSeq(template.text, 1, i - 1)) \o new
        \o SchetRenderedText(SubSeq(template.text, i + Len(Placeholder(ru.srok_oplaty)),
                                     Len(template.text)))

SchetRendered ==
    /\ rendered.done
    /\ rendered.by = "schet"
    /\ rendered.raised = "none"
    /\ rendered.printed = "none"

\* C22: in SchetGenerator.render_template the due date substituted for its
\* placeholder is the first record's invoice date plus exactly 10 days when
\* that date is present and parses as YYYY-MM-DD; when the date field is
\* missing or unparseable the substituted value is the current date at
\* render time, with no 10-day offset.
C22_DueDate ==
    SchetRendered =>
        \A i \in Occurrences(template.text, ru.srok_oplaty) :
            IF HasInvoiceDate(data) /\ ParsesAsDate(InvoiceDate(data))
            THEN rendered.val = DueReplacedAt(i, TenDaysAfter(InvoiceDate(data)))
            ELSE rendered.val = DueReplacedAt(i, today)

(***************************************************************************)
(* The encodings read_csv_file tries (checked under SpecLoad).             *)
(***************************************************************************)
\* the reads in the order of the code, the best-effort read last
ReadOrder == <<"utf-8", "cp1251", "latin1", "ignore">>

\* the strict read of the file under the encoding ends in a decoding error
DecodeFails(file, encoding) == file.exists /\ ~Decodes(file.bytes, encoding)

Digits == {"0", "1", "2", "3", "4", "5", "6", "7", "8", "9"}

\* C24: every counter-derived invoice number returned by
\* get_next_invoice_number has the same fixed width: the literal prefix
\* followed by exactly three digits, for every counter value the store can
\* reach, values above 999 included.
C24_FixedWidth ==
    \A p \in Procs :
        result[p].kind = "counter" =>
            /\ Len(result[p].text) = Len(Prefix) + 3
            /\ SubSeq(result[p].text, 1, Len(Prefix)) = Prefix
            /\ \A i \in (Len(Prefix) + 1)..Len(result[p].text) : result[p].text[i] \in Digits

(***************************************************************************)
(* The grand total laid out by the ReportLab backends (SpecGen).           *)
(***************************************************************************)
\* the total of record n of the dataset when it is a number, else 0
NumericTotal(by, d, n) ==
    LET col == IF by = "schet" THEN ru.obshchaya_summa ELSE n_total
        val == IF d.kind = "df"
               THEN (IF \E c \in 1..Len(d.columns) : d.columns[c] = col
                     THEN d.rows[n][ColumnIndex(d, col)] ELSE NaNVal)
               ELSE (IF d.items[n].isdict /\ HasField(d.items[n], col)
                     THEN FieldValue(d.items[n], col) ELSE NaNVal)
    IN IF val.t = "int" THEN val.v ELSE 0

RECURSIVE SumOfTotals(_, _, _)
SumOfTotals(by, d, n) ==
    IF n = 0 THEN 0 ELSE SumOfTotals(by, d, n - 1) + NumericTotal(by, d, n)

Records(d) == IF d.kind = "df" THEN Len(d.rows) ELSE Len(d.items)

\* C25: the grand total laid out by the structured backend is computed from
\* the filtered dataset: it equals the sum of the numeric total values over
\* all records of the dataset (a record whose total is missing or
\* non-numeric contributes nothing), for tabular datasets and for JSON lists
\* of records alike.
C25_GrandTotal ==
    (gen.called /\ gen.ret /\ gen.invoked = {"reportlab"} /\ Records(gen_data) > 0) =>
        /\ out_file.total.shown
        /\ out_file.total.val = IntVal(SumOfTotals(run.by, gen_data, Records(gen_data)))

\* C26: across every interleaving of get_next_invoice_number calls the
\* counter value held in the durable store never decreases: each write
\* (open for writing, then dump) stores a value greater than or equal to the
\* value the store held immediately before that write.
C26_StoreNeverDecreases ==
    [][\A p \in Procs :
          (pc[p] = "open_w" /\ pc'[p] = "dump" /\ counter_file.has
             /\ counter_file.val.t \in {"int", "float", "bool"}) =>
              counter[p].v >= counter_file.val.v]_vars

\* C27: a call of get_next_invoice_number that ends in the timestamp
\* fallback leaves the durable store exactly as it was before the call,
\* whichever step failed (existence check, read, parse, increment or write);
\* a failed write does not leave the store empty or truncated.
C27_FallbackLeavesStore ==
    \A p \in Procs :
        (Alone(p) /\ pc[p] = "idle" /\ calls[p] = 1 /\ result[p].kind = "timestamp") =>
            counter_file = store0

\* C28: within one process the identifiers returned by any sequence of
\* get_next_invoice_number calls are pairwise distinct, sequences in which
\* some or all calls fall back to the timestamp identifier included: no
\* call returns the identifier the call before it returned.
C28_DistinctWithinProcess ==
    [][\A p \in Procs :
          (calls'[p] = calls[p] + 1 /\ calls[p] >= 1) =>
              result'[p].text # result[p].text]_vars

(***************************************************************************)
(* Substitution order in PDFGenerator.render_template (SpecRender).        *)
(***************************************************************************)

\* C30: substitution in PDFGenerator.render_template does not cascade: the
\* text inserted for a placeholder is never itself rewritten by a later
\* substitution, so a placeholder-shaped string such as {{css_styles}}
\* inside the invoice id appears verbatim in the output, at every place the
\* template holds {{invoice_id}}.
C30_NoCascade ==
    (rendered.done /\ rendered.by = "pdf" /\ Readable(template)
        /\ rendered.raised = "none" /\ rendered.printed = "none") =>
        \A i \in Occurrences(template.text, n_invoice_id) :
            rendered.val = ReplacedAt(i, n_invoice_id, invoice_id)

(***************************************************************************)
(* Properties of generate_new_invoice (checked under SpecInvoice).         *)
(***************************************************************************)
\* the counter the store holds, 0 for a store that holds none
StoredCounter(file) == IF file.has THEN file.val.v ELSE 0

\* the store as call k found it
StoreBefore(k) == IF k = 1 THEN store0 ELSE issued[k - 1].store

\* C29: generate_new_invoice takes its number from the counter before any
\* other step, so every call advances the durable counter by exactly one
\* even when it returns None (no template, empty rendering, failed PDF
\* generation); it returns the issued number exactly when PDF generation
\* succeeded; and a number consumed by a failed call is never issued again
\* by a later call.
C29_NewInvoiceConsumesNumber ==
    \A k \in 1..Len(issued) :
        /\ issued[k].store.has
        /\ StoredCounter(issued[k].store) = StoredCounter(StoreBefore(k)) + 1
        /\ issued[k].ret = (IF issued[k].stage = "done" THEN issued[k].number ELSE None)
        /\ \A j \in (k + 1)..Len(issued) :
              issued[k].stage # "done" => issued[j].number # issued[k].number

====
